---- MODULE Spec2Model ----
(***************************************************************************)
(* Material resource lifecycle of the renderer: a Material holds a shader, *)
(* texture slots, a uniform table, a define mask, render states and a      *)
(* command buffer, and takes part in the resource manager's reference      *)
(* counting and dependency protocol.                                       *)
(*                                                                         *)
(* Operations are operators on a world record W = [mat, tex, shd, gi,      *)
(* warn, stale, oob, unregT, unregS, early, unhandled]: mat, tex and shd   *)
(* are the objects' fields, gi counts the Shader::getInstance lookups and  *)
(* warn the warnings logged by the operation in progress, stale tells that *)
(* it went through a pointer to a destroyed texture and oob that it        *)
(* indexed past the texture array; unregT and unregS hold the dependency   *)
(* the material removed last, and early tells that a manager unloaded a    *)
(* dependency the material had not removed just before; unhandled tells    *)
(* that the command buffer generation met a uniform type its switch has no *)
(* case for.  A material's buffers field counts the command buffers it has *)
(* allocated and not freed, buffer_size is the size it asked for.          *)
(* Every action applies one public operation (or one completion callback)  *)
(* to the current world.                                                   *)
(*                                                                         *)
(* Two collaborators of the resource system are modelled beside it: lua is *)
(* the Lua script scene (component table, entity map, update list, script  *)
(* resources and their observer callbacks) and eng the engine's pause and  *)
(* single-step flags with what its update hands to scenes and plugins.     *)
(***************************************************************************)
EXTENDS Integers, Sequences, FiniteSets, TLC

VARIABLES mat, tex, shd, last, ops, lua, eng

vars == <<mat, tex, shd, last, ops, lua, eng>>

----------------------------------------------------------------------------
(* Bounds of the model *)

\* number of calls the application makes (loads, unloads, mutators) in one run
MaxOps == 4

\* number of texture slots of a material
MAX_TEXTURE_COUNT == 2

----------------------------------------------------------------------------
(* Identities *)

MatIds == {"m1", "m2"}

\* the material the editor mutates; the other one is only loaded and unloaded
Editable == {"m1"}

NullShader == "null"
DefaultShader == "default"
ShaderIds == {"default", "s1"}

\* a texture is identified by its normalized path; the empty path is "no texture"
NullTex == <<>>
TexT == <<"d", "/", "t">>
TexU == <<"u">>
TexIds == {TexT, TexU}

\* the texture files whose decode may fail
Undecodable == {TexU}

Slots == 0 .. (MAX_TEXTURE_COUNT - 1)

\* PathUtils::getDir of the material's own path
MaterialDir(m) == <<"d", "/">>

\* renderer-owned table of shader define names, index = position - 1
DefineNames == <<"D0", "D1">>
DefineIdxs == 0 .. (Len(DefineNames) - 1)

getShaderDefine(i) == DefineNames[i + 1]

getShaderDefineIdx(name) == (CHOOSE p \in 1 .. Len(DefineNames) : DefineNames[p] = name) - 1

\* Path(const char*): normalization drops one leading separator
NormalizePath(p) == IF p # <<>> /\ (p[1] = "/" \/ p[1] = "\\") THEN Tail(p) ELSE p

NullInstance == [s |-> NullShader, mask |-> {}]

\* DEFAULT_ALPHA_REF_VALUE, in thousandths
DEFAULT_ALPHA_REF_VALUE == 300

\* variant: the conversion rounds to the nearest byte
AlphaRefByte_Rounded(a) == ((a * 255 + 500) \div 1000) % 256

\* uint8(value * 255.0f): the conversion truncates
AlphaRefByte(a) == ((a * 255) \div 1000) % 256

\* Material::Uniform(): a new entry of the uniform table
NewUniform == [name_hash |-> "", value |-> 0]

\* the schemas the shader files declare
SchemaOf(s) ==
    CASE s = "default" -> [uniforms |-> << [name_hash |-> "x", type |-> "FLOAT"] >>,
                           slots |-> << -1 >>,
                           render_states |-> {}]
      [] s = "s1" -> [uniforms |-> << [name_hash |-> "a", type |-> "FLOAT"],
                                      [name_hash |-> "b", type |-> "TIME"] >>,
                      slots |-> << 0, -1 >>,
                      render_states |-> {"cull"}]
      [] OTHER -> [uniforms |-> << [name_hash |-> "b", type |-> "TIME"],
                                   [name_hash |-> "c", type |-> "VEC3"],
                                   [name_hash |-> "a", type |-> "FLOAT"] >>,
                   slots |-> << -1, 1 >>,
                   render_states |-> {"blend"}]

----------------------------------------------------------------------------
(* Small helpers *)

RECURSIVE SumOver(_, _)
SumOver(f, S) ==
    IF S = {} THEN 0
    ELSE LET x == CHOOSE y \in S : TRUE IN f[x] + SumOver(f, S \ {x})

MinOf(S) == CHOOSE x \in S : \A y \in S : x <= y

World == [mat |-> mat, tex |-> tex, shd |-> shd, gi |-> 0, warn |-> 0, stale |-> FALSE,
          oob |-> FALSE, unregT |-> NullTex, unregS |-> NullShader, early |-> FALSE,
          unhandled |-> FALSE]

----------------------------------------------------------------------------
(* Shader and Texture accessors *)

getUniformCount(W, s) == Len(W.shd[s].uniforms)

getTextureSlotCount(W, s) == Len(W.shd[s].slots)

\* Shader::getTextureSlot(i).m_define_idx; a slot the shader does not declare has none
SlotDefineIdx(W, s, i) ==
    IF i < getTextureSlotCount(W, s) THEN W.shd[s].slots[i + 1] ELSE -1

\* Shader::getTextureSlot(i).m_uniform_handle
SlotUniformHandle(s, i) == <<s, i>>

\* Shader::getInstance(mask)
getInstance(W, s, mask) == [s |-> s, mask |-> mask]

\* Shader::getFirstInstance()
getFirstInstance(s) == [s |-> s, mask |-> {}]

\* Texture::getTextureHandle(): valid once the texture is uploaded
getTextureHandle(W, t) == [t |-> t, valid |-> W.tex[t].state = "READY"]

----------------------------------------------------------------------------
(* Resource: state and dependency protocol *)

isReady(W, m) == W.mat[m].state = "READY"

\* dependency_count: the registrations of m on resources that are not ready
DepCount(W, m) ==
    SumOver([t \in TexIds |->
                IF W.tex[t].state # "READY" THEN W.mat[m].regT[t] ELSE 0], TexIds)
  + SumOver([s \in ShaderIds |->
                IF W.shd[s].state # "READY" THEN W.mat[m].regS[s] ELSE 0], ShaderIds)

----------------------------------------------------------------------------
(* CommandBufferGenerator and Material::createCommandBuffer *)

\* a read of m_uniforms[i] past the end of the array
StrayUniform == [name_hash |-> "?", value |-> -1]

UniformAt(M, i) == IF i <= Len(M.uniforms) THEN M.uniforms[i] ELSE StrayUniform

\* m_textures[i]; an index past the array reads as no texture
TextureAt(M, i) == IF i \in Slots THEN M.textures[i] ELSE NullTex

NoTexOp == [op |-> "", h |-> "", v |-> 0, slot |-> -1, s |-> NullShader,
            t |-> NullTex, valid |-> FALSE, color |-> <<0, 0, 0>>]

\* the operation the generator emits for shader uniform i (1-based), if any
UniformOps(W, m, i) ==
    LET M  == W.mat[m]
        su == W.shd[M.shader].uniforms[i]
        u  == UniformAt(M, i)
    IN  CASE su.type = "FLOAT" ->
               << [NoTexOp EXCEPT !.op = "setUniform", !.h = su.name_hash, !.v = u.value] >>
          [] su.type \in {"VEC3", "COLOR"} ->
               << [NoTexOp EXCEPT !.op = "setUniform3", !.h = su.name_hash, !.v = u.value] >>
          [] su.type = "TIME" ->
               << [NoTexOp EXCEPT !.op = "setTimeUniform", !.h = su.name_hash] >>
          [] OTHER -> << >>

TextureOps(W, m, i) ==
    LET M == W.mat[m]
    IN  IF i >= M.texture_count \/ TextureAt(M, i) = NullTex THEN << >>
        ELSE << [NoTexOp EXCEPT !.op = "setTexture", !.slot = i, !.s = M.shader,
                                !.t = M.textures[i],
                                !.valid = getTextureHandle(W, M.textures[i]).valid] >>

RECURSIVE UniformPart(_, _, _)
UniformPart(W, m, i) ==
    IF i > getUniformCount(W, W.mat[m].shader) THEN << >>
    ELSE UniformOps(W, m, i) \o UniformPart(W, m, i + 1)

RECURSIVE TexturePart(_, _, _)
TexturePart(W, m, i) ==
    IF i >= getTextureSlotCount(W, W.mat[m].shader) THEN << >>
    ELSE TextureOps(W, m, i) \o TexturePart(W, m, i + 1)

\* the bytes the generator serializes for the material's current state
GeneratedBuffer(W, m) ==
    LET M == W.mat[m]
    IN  UniformPart(W, m, 1) \o TexturePart(W, m, 0)
        \o << [NoTexOp EXCEPT !.op = "setUniform4", !.h = "color_shininess",
                              !.v = M.shininess, !.color = M.color] >>
        \o << [NoTexOp EXCEPT !.op = "end"] >>

\* variant: a texture command embeds the texture's path, not its handle
CommandSize_PathSized(c) ==
    CASE c.op \in {"setUniform", "setUniform3", "setUniform4"} -> 19
      [] c.op = "setTimeUniform" -> 3
      [] c.op = "setTexture" -> 4 + Len(c.t)
      [] OTHER -> 1

\* the bytes one command takes in the buffer: a tag, the handles, and a Vec4 by value
CommandSize(c) ==
    CASE c.op \in {"setUniform", "setUniform3", "setUniform4"} -> 19
      [] c.op = "setTimeUniform" -> 3
      [] c.op = "setTexture" -> 6
      [] OTHER -> 1

\* CommandBufferGenerator::getSize of the commands from position i on
RECURSIVE getSize(_, _)
getSize(buf, i) ==
    IF i > Len(buf) THEN 0 ELSE CommandSize(buf[i]) + getSize(buf, i + 1)

\* the switch over the uniform type has no case for uniform i of the shader
UnhandledUniformType(W, m) ==
    \E i \in 1 .. getUniformCount(W, W.mat[m].shader) :
        W.shd[W.mat[m].shader].uniforms[i].type \notin {"FLOAT", "VEC3", "COLOR", "TIME"}

\* m_allocator.deallocate(m_command_buffer); m_command_buffer = nullptr
deallocateCommandBuffer(W, m) ==
    [W EXCEPT !.mat[m].command_buffer = << >>,
              !.mat[m].buffers = IF W.mat[m].command_buffer # << >> THEN @ - 1 ELSE @,
              !.mat[m].buffer_size = 0]

\* m_allocator.allocate(generator.getSize()); generator.getData(m_command_buffer)
allocateCommandBuffer(W, m, generated) ==
    [W EXCEPT !.mat[m].command_buffer = generated,
              !.mat[m].buffers = @ + 1,
              !.mat[m].buffer_size = getSize(generated, 1)]

generateCommandBuffer(W, m) ==
    IF W.mat[m].shader = NullShader THEN W
    ELSE allocateCommandBuffer(
             [W EXCEPT !.unhandled = @ \/ UnhandledUniformType(W, m)], m,
             GeneratedBuffer(W, m))

\* variant: the previous buffer is not freed before the new one is allocated
createCommandBuffer_NoFree(W, m) == generateCommandBuffer(W, m)

createCommandBuffer(W, m) == generateCommandBuffer(deallocateCommandBuffer(W, m), m)

----------------------------------------------------------------------------
(* Material::onBeforeReady *)

SwapAt(us, i, j) == [us EXCEPT ![i] = us[j], ![j] = us[i]]

\* variant: an uniform the list lacks is appended at the end of the list
RECURSIVE ReconcileUniforms_AppendAtEnd(_, _, _)
ReconcileUniforms_AppendAtEnd(us, schema, i) ==
    IF i > Len(schema) THEN us
    ELSE LET h  == schema[i].name_hash
             js == {j \in i .. Len(us) : us[j].name_hash = h}
         IN  IF js # {}
             THEN ReconcileUniforms_AppendAtEnd(SwapAt(us, i, MinOf(js)), schema, i + 1)
             ELSE ReconcileUniforms_AppendAtEnd(
                      Append(us, [NewUniform EXCEPT !.name_hash = h]), schema, i + 1)

\* variant: the search for a shader uniform starts after its own index, so an
\* entry already in place is not found
RECURSIVE ReconcileUniforms_SearchAfter(_, _, _)
ReconcileUniforms_SearchAfter(us, schema, i) ==
    IF i > Len(schema) THEN us
    ELSE LET h  == schema[i].name_hash
             js == {j \in i + 1 .. Len(us) : us[j].name_hash = h}
         IN  IF js # {}
             THEN ReconcileUniforms_SearchAfter(SwapAt(us, i, MinOf(js)), schema, i + 1)
             ELSE IF i <= Len(us)
                  THEN ReconcileUniforms_SearchAfter(
                           [Append(us, us[i]) EXCEPT ![i].name_hash = h], schema, i + 1)
                  ELSE ReconcileUniforms_SearchAfter(
                           [Append(us, NewUniform) EXCEPT ![i].name_hash = h], schema, i + 1)

\* variant: an uniform the list lacks replaces the entry at its index, whose
\* copy is not kept
RECURSIVE ReconcileUniforms_Overwrite(_, _, _)
ReconcileUniforms_Overwrite(us, schema, i) ==
    IF i > Len(schema) THEN us
    ELSE LET h  == schema[i].name_hash
             js == {j \in i .. Len(us) : us[j].name_hash = h}
         IN  IF js # {}
             THEN ReconcileUniforms_Overwrite(SwapAt(us, i, MinOf(js)), schema, i + 1)
             ELSE IF i <= Len(us)
                  THEN ReconcileUniforms_Overwrite(
                           [us EXCEPT ![i] = [NewUniform EXCEPT !.name_hash = h]],
                           schema, i + 1)
                  ELSE ReconcileUniforms_Overwrite(
                           Append(us, [NewUniform EXCEPT !.name_hash = h]), schema, i + 1)

\* the reorder-or-insert loop over the shader's uniforms, i is 1-based
RECURSIVE ReconcileUniforms(_, _, _)
ReconcileUniforms(us, schema, i) ==
    IF i > Len(schema) THEN us
    ELSE LET h  == schema[i].name_hash
             js == {j \in i .. Len(us) : us[j].name_hash = h}
         IN  IF js # {}
             THEN ReconcileUniforms(SwapAt(us, i, MinOf(js)), schema, i + 1)
             ELSE IF i <= Len(us)
                  THEN ReconcileUniforms(
                           [Append(us, us[i]) EXCEPT ![i].name_hash = h], schema, i + 1)
                  ELSE ReconcileUniforms(
                           [Append(us, NewUniform) EXCEPT ![i].name_hash = h], schema, i + 1)

\* the define bits the shader's texture slots decide, slot i is 0-based
RECURSIVE SlotDefines(_, _, _, _)
SlotDefines(W, m, mask, i) ==
    LET M == W.mat[m]
    IN  IF i >= getTextureSlotCount(W, M.shader) THEN mask
        ELSE LET d == SlotDefineIdx(W, M.shader, i)
                 bound == TextureAt(M, i) # NullTex
             IN  SlotDefines(W, m,
                     IF d >= 0 THEN (IF bound THEN mask \cup {d} ELSE mask \ {d}) ELSE mask,
                     i + 1)

\* m_shader_instance = &m_shader->getInstance(m_define_mask)
resolveShaderInstance(W, m) ==
    [W EXCEPT !.mat[m].shader_instance =
                  getInstance(W, W.mat[m].shader, W.mat[m].define_mask),
              !.gi = @ + 1]

\* the uniform table, the render states and the define mask the shader decides
reconcileWithShader(W, m) ==
    LET M == W.mat[m]
    IN  [W EXCEPT !.mat[m].uniforms =
                      ReconcileUniforms(M.uniforms, W.shd[M.shader].uniforms, 1),
                  !.mat[m].render_states =
                      [alpha |-> AlphaRefByte(M.alpha_ref),
                       bits |-> W.shd[M.shader].render_states],
                  !.mat[m].define_mask = SlotDefines(W, m, M.define_mask, 0)]

onBeforeReady(W, m) ==
    IF W.mat[m].shader = NullShader THEN W
    ELSE resolveShaderInstance(createCommandBuffer(reconcileWithShader(W, m), m), m)

----------------------------------------------------------------------------
(* Resource: readiness *)

\* a resource turns READY when its own load is done and no dependency is pending,
\* and leaves READY while a dependency is pending
checkState(W, m) ==
    LET M == W.mat[m]
    IN  IF M.state = "LOADING" /\ M.loaded /\ DepCount(W, m) = 0
        THEN [onBeforeReady(W, m) EXCEPT !.mat[m].state = "READY"]
        ELSE IF M.state = "READY" /\ DepCount(W, m) > 0
             THEN [W EXCEPT !.mat[m].state = "LOADING"]
             ELSE W

addTextureDependency(W, m, t) ==
    checkState([W EXCEPT !.mat[m].regT[t] = @ + 1], m)

removeTextureDependency(W, m, t) ==
    checkState([W EXCEPT !.mat[m].regT[t] = IF @ > 0 THEN @ - 1 ELSE 0, !.unregT = t], m)

addShaderDependency(W, m, s) ==
    checkState([W EXCEPT !.mat[m].regS[s] = @ + 1], m)

removeShaderDependency(W, m, s) ==
    checkState([W EXCEPT !.mat[m].regS[s] = IF @ > 0 THEN @ - 1 ELSE 0, !.unregS = s], m)

\* the state-change callbacks of a dependency, delivered to every material
RECURSIVE notifyAll(_, _)
notifyAll(W, ms) ==
    IF ms = {} THEN W
    ELSE LET m == CHOOSE x \in ms : TRUE
         IN  notifyAll(checkState(W, m), ms \ {m})

----------------------------------------------------------------------------
(* ResourceManagerBase for textures and shaders, and the Texture setters *)

FreshTexture == [cached |-> FALSE, ref |-> 0, state |-> "EMPTY", flags |-> {},
                 atlas_size |-> -1, data_refs |-> 0]

FreshShader == [cached |-> FALSE, ref |-> 0, state |-> "EMPTY", uniforms |-> << >>,
                slots |-> << >>, render_states |-> {}]

\* load(path): the cached instance or a new one, one more reference, and an
\* asynchronous read when the resource is empty
TextureManagerLoad(W, t) ==
    [W EXCEPT !.tex[t].cached = TRUE,
              !.tex[t].ref = @ + 1,
              !.tex[t].state = IF @ = "EMPTY" THEN "LOADING" ELSE @]

\* unload(resource): one reference less; at zero the resource is torn down
TextureManagerUnload(W, t) ==
    IF ~W.tex[t].cached
    THEN [W EXCEPT !.stale = TRUE, !.early = @ \/ W.unregT # t, !.unregT = NullTex]
    ELSE LET W1 == [W EXCEPT !.tex[t].ref = @ - 1,
                             !.early = @ \/ W.unregT # t, !.unregT = NullTex]
         IN  IF W1.tex[t].ref = 0
             THEN notifyAll([W1 EXCEPT !.tex[t].state = "EMPTY"], MatIds)
             ELSE W1

ShaderManagerLoad(W, s) ==
    [W EXCEPT !.shd[s].cached = TRUE,
              !.shd[s].ref = @ + 1,
              !.shd[s].state = IF @ = "EMPTY" THEN "LOADING" ELSE @]

ShaderManagerUnload(W, s) ==
    LET W1 == [W EXCEPT !.shd[s].ref = @ - 1,
                        !.early = @ \/ W.unregS # s, !.unregS = NullShader]
    IN  IF W1.shd[s].ref = 0
        THEN notifyAll([W1 EXCEPT !.shd[s] = [FreshShader EXCEPT !.cached = TRUE]], MatIds)
        ELSE W1

getAtlasSize(W, t) == W.tex[t].atlas_size

setAtlasSize(W, t, size) ==
    IF ~W.tex[t].cached THEN [W EXCEPT !.stale = TRUE]
    ELSE [W EXCEPT !.tex[t].atlas_size = size]

setFlags(W, t, flags) ==
    IF ~W.tex[t].cached THEN [W EXCEPT !.stale = TRUE]
    ELSE [W EXCEPT !.tex[t].flags = flags]

addDataReference(W, t) ==
    IF ~W.tex[t].cached THEN [W EXCEPT !.stale = TRUE]
    ELSE [W EXCEPT !.tex[t].data_refs = @ + 1]

----------------------------------------------------------------------------
(* Material mutators *)

\* variant: the define bit of a slot is set when a texture is bound and never cleared
SlotDefineMask_NeverCleared(W, m, i) ==
    LET M == W.mat[m]
        d == SlotDefineIdx(W, M.shader, i)
    IN  IF d >= 0 /\ M.textures[i] # NullTex THEN M.define_mask \cup {d} ELSE M.define_mask

\* the define bit a texture slot decides follows the slot's content
SlotDefineMask(W, m, i) ==
    LET M == W.mat[m]
        d == SlotDefineIdx(W, M.shader, i)
    IN  IF d >= 0
        THEN (IF M.textures[i] # NullTex THEN M.define_mask \cup {d} ELSE M.define_mask \ {d})
        ELSE M.define_mask

\* the tail of setTexture: on a ready material the define bit, the command
\* buffer and the shader instance follow the slot
setTextureRefresh(W, m, i) ==
    IF isReady(W, m) /\ W.mat[m].shader # NullShader
    THEN resolveShaderInstance(
             createCommandBuffer(
                 [W EXCEPT !.mat[m].define_mask = SlotDefineMask(W, m, i)], m), m)
    ELSE W

\* variant: the old texture is unloaded before the dependency on it is removed
setTextureRelease_UnloadFirst(W, m, t, old) ==
    IF old # NullTex
    THEN LET Wa == IF t # NullTex THEN setAtlasSize(W, t, getAtlasSize(W, old)) ELSE W
             Wb == TextureManagerUnload(Wa, old)
         IN  removeTextureDependency(Wb, m, old)
    ELSE W

setTextureRelease(W, m, t, old) ==
    IF old # NullTex
    THEN LET Wa == IF t # NullTex THEN setAtlasSize(W, t, getAtlasSize(W, old)) ELSE W
             Wb == removeTextureDependency(Wa, m, old)
         IN  TextureManagerUnload(Wb, old)
    ELSE W

setTexture(W, m, i, t) ==
    LET M   == W.mat[m]
        old == IF i < M.texture_count THEN M.textures[i] ELSE NullTex
        W1  == IF t # NullTex THEN addTextureDependency(W, m, t) ELSE W
        W2  == [W1 EXCEPT !.mat[m].textures[i] = t,
                          !.mat[m].texture_count = IF i >= @ THEN i + 1 ELSE @]
        W3  == setTextureRelease(W2, m, t, old)
    IN  setTextureRefresh(W3, m, i)

setTexturePath(W, m, i, path) ==
    setTexture(IF Len(path) = 0 THEN W ELSE TextureManagerLoad(W, path), m, i,
               IF Len(path) = 0 THEN NullTex ELSE path)

\* variant: the default shader is released like any other
setShaderRelease_AlsoDefault(W, m) ==
    LET old == W.mat[m].shader
    IN  IF old # NullShader
        THEN LET W1 == [W EXCEPT !.mat[m].shader = NullShader]
                 W2 == removeShaderDependency(W1, m, old)
             IN  ShaderManagerUnload(W2, old)
        ELSE W

\* the first half of setShader: give up the shader held so far
setShaderRelease(W, m) ==
    LET old == W.mat[m].shader
    IN  IF old # NullShader /\ old # DefaultShader
        THEN LET W1 == [W EXCEPT !.mat[m].shader = NullShader]
                 W2 == removeShaderDependency(W1, m, old)
             IN  ShaderManagerUnload(W2, old)
        ELSE W

\* variant: the reconciliation always waits for a notification
onShaderSet_AlwaysDeferred(W, m, s) == W

\* a shader that is ready when it is set is reconciled at once
onShaderSet(W, m, s) ==
    IF W.shd[s].state = "READY" THEN onBeforeReady(W, m) ELSE W

\* variant: no fallback to the default shader
setShaderAcquire_NoDefault(W, m, s) ==
    IF s # NullShader
    THEN onShaderSet(addShaderDependency([W EXCEPT !.mat[m].shader = s], m, s), m, s)
    ELSE [W EXCEPT !.mat[m].shader = s]

\* the second half of setShader: take the new shader, or the default one
setShaderAcquire(W, m, s) ==
    IF s # NullShader
    THEN onShaderSet(addShaderDependency([W EXCEPT !.mat[m].shader = s], m, s), m, s)
    ELSE [W EXCEPT !.mat[m].shader = DefaultShader,
                   !.mat[m].shader_instance = getFirstInstance(DefaultShader)]

setShader(W, m, s) == setShaderAcquire(setShaderRelease(W, m), m, s)

setShaderPath(W, m, s) == setShader(ShaderManagerLoad(W, s), m, s)

\* variant: the instance is looked up whether or not the mask changed
setDefine_AlwaysResolve(W, m, define_idx, enabled) ==
    LET old_mask == W.mat[m].define_mask
        new_mask == IF enabled THEN old_mask \cup {define_idx} ELSE old_mask \ {define_idx}
        W1 == [W EXCEPT !.mat[m].define_mask = new_mask]
    IN  IF ~isReady(W1, m) THEN W1
        ELSE IF W1.mat[m].shader = NullShader THEN W1
        ELSE [W1 EXCEPT !.mat[m].shader_instance =
                            getInstance(W1, W1.mat[m].shader, new_mask),
                        !.gi = W1.gi + 1]

setDefine(W, m, define_idx, enabled) ==
    LET old_mask == W.mat[m].define_mask
        new_mask == IF enabled THEN old_mask \cup {define_idx} ELSE old_mask \ {define_idx}
        W1 == [W EXCEPT !.mat[m].define_mask = new_mask]
    IN  IF ~isReady(W1, m) THEN W1
        ELSE IF W1.mat[m].shader = NullShader THEN W1
        ELSE IF old_mask # new_mask
             THEN [W1 EXCEPT !.mat[m].shader_instance =
                                 getInstance(W1, W1.mat[m].shader, new_mask),
                             !.gi = W1.gi + 1]
             ELSE W1

\* the loop of Material::unload over the slots in use, from slot i
RECURSIVE unloadTextures(_, _, _)
unloadTextures(W, m, i) ==
    IF i >= W.mat[m].texture_count THEN W
    ELSE LET t == TextureAt(W.mat[m], i)
         IN  IF t # NullTex
             THEN unloadTextures(
                      TextureManagerUnload(removeTextureDependency(W, m, t), t), m, i + 1)
             ELSE unloadTextures([W EXCEPT !.oob = @ \/ i \notin Slots], m, i + 1)

unload(W, m) ==
    LET W1 == [deallocateCommandBuffer(W, m) EXCEPT !.mat[m].uniforms = << >>]
        W2 == setShader(W1, m, NullShader)
        W3 == unloadTextures(W2, m, 0)
    IN  [W3 EXCEPT !.mat[m].texture_count = 0]

----------------------------------------------------------------------------
(* Material::load and its helpers.  A document is a sequence of entries     *)
(* [k |-> label, v |-> value] in file order; a texture block's value is a   *)
(* sequence of entries, a uniforms value a sequence of such sequences.      *)

RECURSIVE DefineMaskOf(_, _)
DefineMaskOf(names, i) ==
    IF i > Len(names) THEN {}
    ELSE {getShaderDefineIdx(names[i])} \cup DefineMaskOf(names, i + 1)

deserializeDefines(W, m, names) ==
    [W EXCEPT !.mat[m].define_mask = DefineMaskOf(names, 1)]

UniformValueLabels ==
    {"int_value", "float_value", "matrix_value", "time", "color", "vec3"}

\* one uniform object: [u |-> the entry, warn |-> warnings logged]
RECURSIVE UniformObject(_, _, _)
UniformObject(obj, i, acc) ==
    IF i > Len(obj) THEN acc
    ELSE LET e == obj[i]
         IN  IF e.k = "name"
             THEN UniformObject(obj, i + 1, [acc EXCEPT !.u.name_hash = e.v])
             ELSE IF e.k \in UniformValueLabels
                  THEN UniformObject(obj, i + 1, [acc EXCEPT !.u.value = e.v])
                  ELSE UniformObject(obj, i + 1, [acc EXCEPT !.warn = @ + 1])

RECURSIVE UniformObjects(_, _, _)
UniformObjects(list, i, acc) ==
    IF i > Len(list) THEN acc
    ELSE LET r == UniformObject(list[i], 1, [u |-> NewUniform, warn |-> 0])
         IN  UniformObjects(list, i + 1,
                 [us |-> Append(acc.us, r.u), warn |-> acc.warn + r.warn])

deserializeUniforms(W, m, list) ==
    LET r == UniformObjects(list, 1, [us |-> << >>, warn |-> 0])
    IN  [W EXCEPT !.mat[m].uniforms = r.us, !.warn = @ + r.warn]

TextureFlagLabels == {"u_clamp", "v_clamp", "w_clamp", "srgb"}

FlagOfLabel(k) ==
    CASE k = "u_clamp" -> "U_CLAMP"
      [] k = "v_clamp" -> "V_CLAMP"
      [] k = "w_clamp" -> "W_CLAMP"
      [] OTHER -> "SRGB"

FilterFlag(k, v) ==
    IF v = "point" THEN {IF k = "min_filter" THEN "MIN_POINT" ELSE "MAG_POINT"}
    ELSE IF v = "anisotropic"
         THEN {IF k = "min_filter" THEN "MIN_ANISOTROPIC" ELSE "MAG_ANISOTROPIC"}
         ELSE {}

\* m_textures[m_texture_count], NullTex standing for a slot past the array
SlotInFill(W, m) ==
    IF W.mat[m].texture_count < MAX_TEXTURE_COUNT
    THEN W.mat[m].textures[W.mat[m].texture_count] ELSE NullTex

\* m_textures[m_texture_count] = t; a write past the array is out of bounds
storeInFill(W, m, t) ==
    IF W.mat[m].texture_count < MAX_TEXTURE_COUNT
    THEN [W EXCEPT !.mat[m].textures[W.mat[m].texture_count] = t]
    ELSE [W EXCEPT !.oob = TRUE]

\* the "source" label of a texture block
deserializeSource(W, m, path) ==
    IF path = << >> THEN W
    ELSE LET texture_path == IF path[1] # "/" /\ path[1] # "\\"
                             THEN MaterialDir(m) \o path ELSE path
             t  == NormalizePath(texture_path)
         IN  addTextureDependency(storeInFill(TextureManagerLoad(W, t), m, t), m, t)

\* what follows the label loop of a texture block
deserializeTextureEnd(W, m, loc) ==
    LET t  == SlotInFill(W, m)
        W1 == IF t # NullTex
              THEN LET Wa == setFlags(setAtlasSize(W, t, loc.atlas_size), t, loc.flags)
                   IN  IF loc.keep_data THEN addDataReference(Wa, t) ELSE Wa
              ELSE W
    IN  [w |-> [W1 EXCEPT !.mat[m].texture_count = @ + 1,
                          !.oob = @ \/ W.mat[m].texture_count >= MAX_TEXTURE_COUNT],
         ok |-> TRUE]

\* the label loop of a texture block from entry i, loc holding the block's locals
RECURSIVE deserializeTextureFrom(_, _, _, _, _)
deserializeTextureFrom(W, m, block, i, loc) ==
    IF i > Len(block) THEN deserializeTextureEnd(W, m, loc)
    ELSE LET e == block[i]
         IN  CASE e.k = "source" ->
                    deserializeTextureFrom(deserializeSource(W, m, e.v), m, block, i + 1, loc)
               [] e.k = "atlas_size" ->
                    deserializeTextureFrom(W, m, block, i + 1, [loc EXCEPT !.atlas_size = e.v])
               [] e.k \in {"min_filter", "mag_filter"} ->
                    deserializeTextureFrom(W, m, block, i + 1,
                        [loc EXCEPT !.flags = @ \cup FilterFlag(e.k, e.v)])
               [] e.k \in TextureFlagLabels ->
                    deserializeTextureFrom(W, m, block, i + 1,
                        [loc EXCEPT !.flags = IF e.v THEN @ \cup {FlagOfLabel(e.k)} ELSE @])
               [] e.k = "keep_data" ->
                    deserializeTextureFrom(W, m, block, i + 1, [loc EXCEPT !.keep_data = e.v])
               [] OTHER -> [w |-> [W EXCEPT !.warn = @ + 1], ok |-> FALSE]

deserializeTexture(W, m, block) ==
    deserializeTextureFrom(W, m, block, 1,
        [flags |-> {}, atlas_size |-> -1, keep_data |-> FALSE])

setAlphaRef(W, m, value) ==
    [W EXCEPT !.mat[m].alpha_ref = value,
              !.mat[m].render_states.alpha = AlphaRefByte(value)]

\* the check that ends Material::load
loadEnd(W, m) == [w |-> W, ok |-> W.mat[m].shader # NullShader]

\* variant: the result of deserializeTexture is not looked at
loadLabel_IgnoreTextureResult(W, m, e) ==
    CASE e.k = "defines" -> [w |-> deserializeDefines(W, m, e.v), ok |-> TRUE]
      [] e.k = "uniforms" -> [w |-> deserializeUniforms(W, m, e.v), ok |-> TRUE]
      [] e.k = "texture" -> [w |-> deserializeTexture(W, m, e.v).w, ok |-> TRUE]
      [] e.k = "alpha_ref" -> [w |-> [W EXCEPT !.mat[m].alpha_ref = e.v], ok |-> TRUE]
      [] e.k = "layer_count" -> [w |-> [W EXCEPT !.mat[m].layer_count = e.v], ok |-> TRUE]
      [] e.k = "color" -> [w |-> [W EXCEPT !.mat[m].color = e.v], ok |-> TRUE]
      [] e.k = "shininess" -> [w |-> [W EXCEPT !.mat[m].shininess = e.v], ok |-> TRUE]
      [] e.k = "shader" -> [w |-> setShader(ShaderManagerLoad(W, e.v), m, e.v), ok |-> TRUE]
      [] OTHER -> [w |-> [W EXCEPT !.warn = @ + 1], ok |-> TRUE]

\* variant: an unknown label ends the load
loadLabel_AbortOnUnknown(W, m, e) ==
    CASE e.k = "defines" -> [w |-> deserializeDefines(W, m, e.v), ok |-> TRUE]
      [] e.k = "uniforms" -> [w |-> deserializeUniforms(W, m, e.v), ok |-> TRUE]
      [] e.k = "texture" -> deserializeTexture(W, m, e.v)
      [] e.k = "alpha_ref" -> [w |-> [W EXCEPT !.mat[m].alpha_ref = e.v], ok |-> TRUE]
      [] e.k = "layer_count" -> [w |-> [W EXCEPT !.mat[m].layer_count = e.v], ok |-> TRUE]
      [] e.k = "color" -> [w |-> [W EXCEPT !.mat[m].color = e.v], ok |-> TRUE]
      [] e.k = "shininess" -> [w |-> [W EXCEPT !.mat[m].shininess = e.v], ok |-> TRUE]
      [] e.k = "shader" -> [w |-> setShader(ShaderManagerLoad(W, e.v), m, e.v), ok |-> TRUE]
      [] OTHER -> [w |-> [W EXCEPT !.warn = @ + 1], ok |-> FALSE]

\* one turn of the label loop of Material::load: the branch label e.k selects
loadLabel(W, m, e) ==
    CASE e.k = "defines" -> [w |-> deserializeDefines(W, m, e.v), ok |-> TRUE]
      [] e.k = "uniforms" -> [w |-> deserializeUniforms(W, m, e.v), ok |-> TRUE]
      [] e.k = "texture" -> deserializeTexture(W, m, e.v)
      [] e.k = "alpha_ref" -> [w |-> [W EXCEPT !.mat[m].alpha_ref = e.v], ok |-> TRUE]
      [] e.k = "layer_count" -> [w |-> [W EXCEPT !.mat[m].layer_count = e.v], ok |-> TRUE]
      [] e.k = "color" -> [w |-> [W EXCEPT !.mat[m].color = e.v], ok |-> TRUE]
      [] e.k = "shininess" -> [w |-> [W EXCEPT !.mat[m].shininess = e.v], ok |-> TRUE]
      [] e.k = "shader" -> [w |-> setShader(ShaderManagerLoad(W, e.v), m, e.v), ok |-> TRUE]
      [] OTHER -> [w |-> [W EXCEPT !.warn = @ + 1], ok |-> TRUE]

\* the label loop of Material::load from entry i; a failed turn returns false
RECURSIVE loadFrom(_, _, _, _)

\* after a turn with result r: return false, or go on with entry i + 1
loadNext(r, m, doc, i) ==
    IF ~r.ok THEN r ELSE loadFrom(r.w, m, doc, i + 1)

loadFrom(W, m, doc, i) ==
    IF i > Len(doc) THEN loadEnd(W, m)
    ELSE loadNext(loadLabel(W, m, doc[i]), m, doc, i)

load(W, m, doc) ==
    LET W1 == [W EXCEPT !.mat[m].render_states = [alpha |-> 0, bits |-> {}]]
        W2 == setAlphaRef(W1, m, DEFAULT_ALPHA_REF_VALUE)
        W3 == [W2 EXCEPT !.mat[m].uniforms = << >>]
    IN  loadFrom(W3, m, doc, 1)

----------------------------------------------------------------------------
(* Material::save: the document it writes, in the format load reads *)

FlagEntries(flags) ==
       (IF "SRGB" \in flags THEN << [k |-> "srgb", v |-> TRUE] >> ELSE << >>)
    \o (IF "U_CLAMP" \in flags THEN << [k |-> "u_clamp", v |-> TRUE] >> ELSE << >>)
    \o (IF "V_CLAMP" \in flags THEN << [k |-> "v_clamp", v |-> TRUE] >> ELSE << >>)
    \o (IF "W_CLAMP" \in flags THEN << [k |-> "w_clamp", v |-> TRUE] >> ELSE << >>)
    \o (IF "MIN_POINT" \in flags THEN << [k |-> "min_filter", v |-> "point"] >> ELSE << >>)
    \o (IF "MIN_ANISOTROPIC" \in flags
        THEN << [k |-> "min_filter", v |-> "anisotropic"] >> ELSE << >>)
    \o (IF "MAG_POINT" \in flags THEN << [k |-> "mag_filter", v |-> "point"] >> ELSE << >>)
    \o (IF "MAG_ANISOTROPIC" \in flags
        THEN << [k |-> "mag_filter", v |-> "anisotropic"] >> ELSE << >>)

saveTexture(W, m, i) ==
    LET t     == TextureAt(W.mat[m], i)
        flags == IF t # NullTex THEN W.tex[t].flags ELSE {}
        atlas == IF t # NullTex THEN getAtlasSize(W, t) ELSE -1
        path  == IF t # NullTex THEN << "/" >> \o t ELSE << >>
    IN  [k |-> "texture",
         v |-> << [k |-> "source", v |-> path] >>
               \o (IF atlas > 0 THEN << [k |-> "atlas_size", v |-> atlas] >> ELSE << >>)
               \o FlagEntries(flags)
               \o (IF t # NullTex /\ W.tex[t].data_refs > 0
                   THEN << [k |-> "keep_data", v |-> TRUE] >> ELSE << >>)]

\* variant: no block is written for a slot without a texture
RECURSIVE saveTextures_SkipUnbound(_, _, _)
saveTextures_SkipUnbound(W, m, i) ==
    IF i >= W.mat[m].texture_count THEN << >>
    ELSE (IF TextureAt(W.mat[m], i) # NullTex THEN << saveTexture(W, m, i) >> ELSE << >>)
         \o saveTextures_SkipUnbound(W, m, i + 1)

RECURSIVE saveTextures(_, _, _)
saveTextures(W, m, i) ==
    IF i >= W.mat[m].texture_count THEN << >>
    ELSE << saveTexture(W, m, i) >> \o saveTextures(W, m, i + 1)

\* variant: no define is written
saveDefines_None(mask, i) == << >>

RECURSIVE saveDefines(_, _)
saveDefines(mask, i) ==
    IF i >= Len(DefineNames) THEN << >>
    ELSE (IF i \in mask THEN << getShaderDefine(i) >> ELSE << >>) \o saveDefines(mask, i + 1)

ValueLabel(type) ==
    CASE type = "FLOAT" -> "float_value"
      [] type = "COLOR" -> "color"
      [] type = "VEC3" -> "vec3"
      [] type = "TIME" -> "time"
      [] type = "INT" -> "int_value"
      [] OTHER -> "matrix_value"

saveUniform(W, m, i) ==
    LET su == W.shd[W.mat[m].shader].uniforms[i]
    IN  << [k |-> "name", v |-> su.name_hash],
           [k |-> ValueLabel(su.type),
            v |-> IF su.type = "TIME" THEN 0 ELSE UniformAt(W.mat[m], i).value] >>

RECURSIVE saveUniforms(_, _, _)
saveUniforms(W, m, i) ==
    IF i > getUniformCount(W, W.mat[m].shader) THEN << >>
    ELSE << saveUniform(W, m, i) >> \o saveUniforms(W, m, i + 1)

\* [ok |-> the return value, doc |-> the document written]
save(W, m) ==
    LET M == W.mat[m]
    IN  IF ~isReady(W, m) \/ M.shader = NullShader THEN [ok |-> FALSE, doc |-> << >>]
        ELSE [ok |-> TRUE,
              doc |-> << [k |-> "shader", v |-> M.shader] >>
                      \o (IF M.layer_count # 1
                          THEN << [k |-> "layer_count", v |-> M.layer_count] >> ELSE << >>)
                      \o saveTextures(W, m, 0)
                      \o << [k |-> "defines", v |-> saveDefines(M.define_mask, 0)],
                            [k |-> "uniforms", v |-> saveUniforms(W, m, 1)],
                            [k |-> "shininess", v |-> M.shininess],
                            [k |-> "alpha_ref", v |-> M.alpha_ref],
                            [k |-> "color", v |-> M.color] >>]

----------------------------------------------------------------------------
(* Construction and the Resource load / unload entry points *)

\* the members as the constructor's initializer list leaves them
MemberInit ==
    [state |-> "EMPTY", loaded |-> FALSE,
     shader |-> NullShader, shader_instance |-> NullInstance,
     textures |-> [i \in Slots |-> NullTex], texture_count |-> 0,
     uniforms |-> << >>, define_mask |-> {},
     render_states |-> [alpha |-> 0, bits |-> {}], alpha_ref |-> 0,
     color |-> <<1, 1, 1>>, shininess |-> 4, layer_count |-> 1,
     command_buffer |-> << >>, buffers |-> 0, buffer_size |-> 0,
     regT |-> [t \in TexIds |-> 0], regS |-> [s \in ShaderIds |-> 0]]

InitShaders ==
    [s \in ShaderIds |->
        IF s = DefaultShader
        THEN [cached |-> TRUE, ref |-> 1, state |-> "READY",
              uniforms |-> SchemaOf(s).uniforms, slots |-> SchemaOf(s).slots,
              render_states |-> SchemaOf(s).render_states]
        ELSE FreshShader]

\* Material::Material on every material of the model
RECURSIVE Construct(_, _)
Construct(W, ms) ==
    IF ms = {} THEN W
    ELSE LET m == CHOOSE x \in ms : TRUE
             W1 == setAlphaRef(W, m, DEFAULT_ALPHA_REF_VALUE)
         IN  Construct(setShader(W1, m, NullShader), ms \ {m})

ConstructedWorld ==
    Construct([mat |-> [m \in MatIds |-> MemberInit],
               tex |-> [t \in TexIds |-> FreshTexture],
               shd |-> InitShaders,
               gi |-> 0, warn |-> 0, stale |-> FALSE, oob |-> FALSE,
               unregT |-> NullTex, unregS |-> NullShader, early |-> FALSE,
               unhandled |-> FALSE], MatIds)

\* the file-read completion of a material: Material::load, then the state it earns
onLoaded(r, m) ==
    IF r.ok
    THEN [w |-> checkState([r.w EXCEPT !.mat[m].loaded = TRUE], m), ok |-> TRUE]
    ELSE [w |-> [r.w EXCEPT !.mat[m].state = "FAILURE"], ok |-> FALSE]

fileLoaded(W, m, doc) == onLoaded(load(W, m, doc), m)

\* the decode completion of a shader that declares `schema`
shaderLoaded(W, s, schema) ==
    notifyAll([W EXCEPT !.shd[s].state = "READY",
                        !.shd[s].uniforms = schema.uniforms,
                        !.shd[s].slots = schema.slots,
                        !.shd[s].render_states = schema.render_states], MatIds)

\* the manager unloading a material: Material::unload, then EMPTY
doUnload(W, m) ==
    LET W1 == unload([W EXCEPT !.mat[m].loaded = FALSE], m)
    IN  [W1 EXCEPT !.mat[m].state = "EMPTY"]

----------------------------------------------------------------------------
(* The material files of the model *)

DocBasic ==
    << [k |-> "shader", v |-> "s1"],
       [k |-> "texture", v |-> << [k |-> "source", v |-> <<"t">>],
                                  [k |-> "srgb", v |-> TRUE] >>],
       [k |-> "alpha_ref", v |-> 500],
       [k |-> "uniforms", v |-> << << [k |-> "name", v |-> "a"],
                                      [k |-> "float_value", v |-> 1] >> >>] >>

DocNoShader ==
    << [k |-> "color", v |-> <<2, 2, 2>>],
       [k |-> "texture", v |-> << [k |-> "source", v |-> <<"/", "u">>] >>] >>

DocBadTexture ==
    << [k |-> "shader", v |-> "s1"],
       [k |-> "texture", v |-> << [k |-> "source", v |-> <<"/", "u">>],
                                  [k |-> "bogus", v |-> 0] >>],
       [k |-> "shininess", v |-> 8] >>

DocEmptySource ==
    << [k |-> "shader", v |-> "s1"],
       [k |-> "texture", v |-> << [k |-> "source", v |-> << >>] >>] >>

DocUnknown ==
    << [k |-> "foo", v |-> 1],
       [k |-> "shader", v |-> "s1"],
       [k |-> "uniforms", v |-> << << [k |-> "name", v |-> "b"],
                                      [k |-> "time", v |-> 3],
                                      [k |-> "junk", v |-> 0] >>,
                                   << [k |-> "name", v |-> "a"],
                                      [k |-> "float_value", v |-> 1] >> >>],
       [k |-> "defines", v |-> << "D1" >>],
       [k |-> "texture", v |-> << [k |-> "source", v |-> << >>] >>],
       [k |-> "texture", v |-> << [k |-> "min_filter", v |-> "point"],
                                  [k |-> "source", v |-> <<"/", "u">>] >>],
       [k |-> "shininess", v |-> 8],
       [k |-> "bar", v |-> 2] >>

DocBadFirst ==
    << [k |-> "texture", v |-> << [k |-> "bogus", v |-> 0],
                                  [k |-> "source", v |-> <<"t">>] >>],
       [k |-> "shader", v |-> "s1"] >>

DocFull ==
    << [k |-> "layer_count", v |-> 2],
       [k |-> "shader", v |-> "s1"],
       [k |-> "texture", v |-> << [k |-> "source", v |-> <<"t">>],
                                  [k |-> "atlas_size", v |-> 4],
                                  [k |-> "u_clamp", v |-> TRUE],
                                  [k |-> "mag_filter", v |-> "anisotropic"] >>],
       [k |-> "color", v |-> <<3, 2, 1>>],
       [k |-> "alpha_ref", v |-> 500],
       [k |-> "uniforms", v |-> << << [k |-> "name", v |-> "a"],
                                      [k |-> "float_value", v |-> 2] >> >>] >>

Docs == << DocBasic, DocNoShader, DocBadTexture, DocEmptySource,
           DocUnknown, DocBadFirst, DocFull >>

DocIds == 1 .. Len(Docs)

\* the files behind each material's path in the lifecycle runs
DocsOf(m) == IF m = "m1" THEN {1, 2, 3, 4} ELSE {1}

----------------------------------------------------------------------------
(* The state machine *)

NoArg == [i |-> -1, en |-> FALSE, d |-> 0]

\* what the last operation was and what it reported
Report(op, m, arg, W, ok) ==
    [op |-> op, m |-> m, arg |-> arg, ok |-> ok, gi |-> W.gi, warn |-> W.warn,
     stale |-> W.stale, oob |-> W.oob, early |-> W.early, unhandled |-> W.unhandled,
     rep |-> (last.op = op /\ last.m = m /\ last.arg = arg)]

Commit(W) == mat' = W.mat /\ tex' = W.tex /\ shd' = W.shd /\ UNCHANGED <<lua, eng>>

\* an operation returns with the world W and the result ok
Returns(op, m, arg, W, ok) == Commit(W) /\ last' = Report(op, m, arg, W, ok)

\* an operation returns with the result record r
ReturnsResult(op, m, arg, r) == Returns(op, m, arg, r.w, r.ok)

\* the objects are as W holds them
(***************************************************************************)
(* LuaScriptSceneImpl: the component table m_scripts, the entity map, the  *)
(* update list m_updates and the script resources with their observer      *)
(* callbacks.  A component is known by the object allocated for it (obj),  *)
(* a script resource by its path; an instance's state field tells whether  *)
(* it has a Lua state.  report is what the last call did.                  *)
(***************************************************************************)
MaxScripts == 3
MaxObjects == 6
MaxCreated == 3
MaxCommands == 2
MaxSteps == 7
Entities == {1, 2}
ComponentIdxs == 0 .. Cardinality(Entities) - 1
Objects == 1 .. MaxObjects
ScriptPaths == {"a.lua", "b.lua"}
NoScript == ""
INVALID_COMPONENT == -1
GarbageCmp == {-1, 0, 1}
PropertyLists == {<< >>, << [name_hash |-> "speed", value |-> "1"] >>}

NoComponent == [obj |-> 0, entity |-> -1, scripts |-> << >>]

\* ScriptInstance::ScriptInstance
NewInstance == [script |-> NoScript, state |-> FALSE, properties |-> << >>]

FreshScript == [ref |-> 0, ready |-> FALSE, cbs |-> [o \in Objects |-> 0]]

NoReport ==
    [op |-> "init", cmp |-> INVALID_COMPONENT, obj |-> 0,
     null_state_call |-> FALSE, out_of_bounds |-> FALSE,
     dead_delivery |-> FALSE, dead_update |-> FALSE]

\* a RemoveScriptCommand that has not been executed; before is the script
\* list and the reference counts its execute found
NoCommand ==
    [active |-> FALSE, blob |-> << >>, cmp |-> INVALID_COMPONENT, scr_index |-> -1,
     before |-> << >>, refs |-> << >>]

SceneInit ==
    [scripts |-> << >>,
     entity_script_map |-> [e \in Entities |-> INVALID_COMPONENT],
     updates |-> << >>,
     global_state |-> FALSE,
     res |-> [p \in ScriptPaths |-> FreshScript],
     next_obj |-> 1, running |-> FALSE, steps |-> 0,
     cmd |-> NoCommand,
     report |-> NoReport]

IsLive(L, c) == c \in 0 .. Len(L.scripts) - 1 /\ L.scripts[c + 1].obj # 0

LiveObjects(L) == {L.scripts[k].obj : k \in 1 .. Len(L.scripts)} \ {0}

InstanceAt(L, c, i) == L.scripts[c + 1].scripts[i + 1]

\* ResourceManagerBase::load for a script
ScriptManager_load(L, p) ==
    IF p = NoScript THEN L ELSE [L EXCEPT !.res[p].ref = @ + 1]

\* ResourceManagerBase::unload: the last reference gone, the resource is unloaded
ScriptManager_unload(L, p) ==
    [L EXCEPT !.res[p].ref = @ - 1,
              !.res[p].ready = IF L.res[p].ref = 1 THEN FALSE ELSE @]

\* DelegateList::unbind
unbind(L, p, o) ==
    [L EXCEPT !.res[p].cbs[o] = IF @ > 0 THEN @ - 1 ELSE @]

\* ScriptComponent::onScriptLoaded of the component allocated as o
onScriptLoaded(L, o) ==
    IF o \notin LiveObjects(L)
    THEN [L EXCEPT !.report.dead_delivery = TRUE]
    ELSE [L EXCEPT !.scripts =
              [k \in DOMAIN L.scripts |->
                  IF L.scripts[k].obj # o THEN L.scripts[k]
                  ELSE [L.scripts[k] EXCEPT !.scripts =
                           [j \in DOMAIN L.scripts[k].scripts |->
                               [L.scripts[k].scripts[j] EXCEPT !.state =
                                    /\ L.scripts[k].scripts[j].script # NoScript
                                    /\ L.res[L.scripts[k].scripts[j].script].ready]]]]]

\* Resource::onLoaded: binds the callback and calls it at once for a ready resource
LuaScript_onLoaded(L, p, o) ==
    LET L1 == [L EXCEPT !.res[p].cbs[o] = @ + 1]
    IN  IF L.res[p].ready THEN onScriptLoaded(L1, o) ELSE L1

\* the resource's state changed: every bound callback is called
RECURSIVE invokeCallbacks(_, _, _)
invokeCallbacks(L, p, o) ==
    IF o > MaxObjects THEN L
    ELSE invokeCallbacks(IF L.res[p].cbs[o] > 0 THEN onScriptLoaded(L, o) ELSE L, p, o + 1)

\* setScriptPath(ScriptComponent&, ScriptInstance&, const Path&) on the
\* instance of component c at index i
setScriptPath(L, c, i, path) ==
    LET o    == L.scripts[c + 1].obj
        old  == InstanceAt(L, c, i).script
        L0   == [L EXCEPT !.global_state = TRUE]
        L1   == IF old # NoScript
                THEN ScriptManager_unload(
                         unbind([L0 EXCEPT !.scripts[c + 1].scripts[i + 1].state = FALSE],
                                old, o), old)
                ELSE L0
        L2   == ScriptManager_load(
                    [L1 EXCEPT !.scripts[c + 1].scripts[i + 1].script = path], path)
    IN  IF path # NoScript THEN LuaScript_onLoaded(L2, path, o) ELSE L2

\* the loops of unloadAllScripts: setScriptPath with the invalid path on a
\* copy of the instance i of component c
RECURSIVE releaseCopies(_, _, _)
releaseCopies(L, c, i) ==
    IF c >= Len(L.scripts) THEN L
    ELSE IF i >= Len(L.scripts[c + 1].scripts) THEN releaseCopies(L, c + 1, 0)
         ELSE LET old == InstanceAt(L, c, i).script
              IN  releaseCopies(
                      IF old # NoScript
                      THEN ScriptManager_unload(unbind(L, old, L.scripts[c + 1].obj), old)
                      ELSE L,
                      c, i + 1)

\* variant: the component table is not cleared
unloadAllScripts_KeepTable(L) ==
    [releaseCopies(L, 0, 0) EXCEPT
        !.entity_script_map = [e \in Entities |-> INVALID_COMPONENT]]

unloadAllScripts(L) ==
    LET L1 == releaseCopies(L, 0, 0)
        any == \E k \in DOMAIN L.scripts : L.scripts[k].scripts # << >>
    IN  [L1 EXCEPT !.global_state = @ \/ any,
                   !.entity_script_map = [e \in Entities |-> INVALID_COMPONENT],
                   !.scripts = << >>]

\* the entries startGame appends for the instances of component c from index i:
\* has_update is the set of scripts that define `update`, g the value the
\* entry's cmp field is left with
RECURSIVE startScripts(_, _, _, _, _)
startScripts(L, c, i, has_update, g) ==
    IF i >= Len(L.scripts[c + 1].scripts) THEN L
    ELSE LET inst == InstanceAt(L, c, i)
             L1 == IF inst.script = NoScript THEN L
                   ELSE [L EXCEPT
                            !.report.null_state_call = @ \/ ~inst.state,
                            !.updates =
                                IF inst.script \in has_update
                                THEN Append(@, [script |-> inst.script, state |-> inst.state,
                                                cmp |-> g, owner |-> L.scripts[c + 1].obj])
                                ELSE @]
         IN  startScripts(L1, c, i + 1, has_update, g)

RECURSIVE startComponents(_, _, _, _)
startComponents(L, c, has_update, g) ==
    IF c >= Len(L.scripts) THEN L
    ELSE startComponents(
             IF L.scripts[c + 1].obj = 0 THEN L ELSE startScripts(L, c, 0, has_update, g),
             c + 1, has_update, g)

startGame(L, has_update, g) ==
    [startComponents(L, 0, has_update, g) EXCEPT !.running = TRUE]

\* Array::erase, i is 0-based
erase(seq, i) == [k \in 1 .. Len(seq) - 1 |-> IF k <= i THEN seq[k] ELSE seq[k + 1]]

\* Array::eraseFast: the last element takes the place of the erased one
eraseFast(seq, i) ==
    [k \in 1 .. Len(seq) - 1 |-> IF k = i + 1 THEN seq[Len(seq)] ELSE seq[k]]

\* Array::emplaceAt
emplaceAt(seq, i, e) ==
    [k \in 1 .. Len(seq) + 1 |->
        IF k <= i THEN seq[k] ELSE IF k = i + 1 THEN e ELSE seq[k - 1]]

\* the loop of destroyComponent over m_updates: c0 is the size read once
\* before the loop
RECURSIVE eraseUpdates(_, _, _, _)
eraseUpdates(L, i, c0, component) ==
    IF i >= c0 THEN L
    ELSE IF i >= Len(L.updates)
         THEN [L EXCEPT !.report.out_of_bounds = TRUE]
         ELSE eraseUpdates(
                  IF L.updates[i + 1].cmp = component
                  THEN [L EXCEPT !.updates = erase(@, i)] ELSE L,
                  i + 1, c0, component)

RECURSIVE unloadScriptsOf(_, _, _)
unloadScriptsOf(L, c, i) ==
    IF i >= Len(L.scripts[c + 1].scripts) THEN L
    ELSE unloadScriptsOf(
             IF InstanceAt(L, c, i).script # NoScript
             THEN ScriptManager_unload(L, InstanceAt(L, c, i).script) ELSE L,
             c, i + 1)

createComponent(L, entity) ==
    LET free == {k \in 1 .. Len(L.scripts) : L.scripts[k].obj = 0}
        cmp  == IF free # {} THEN MinOf(free) - 1 ELSE Len(L.scripts)
        s    == [obj |-> L.next_obj, entity |-> entity, scripts |-> << >>]
    IN  [L EXCEPT !.scripts = IF free # {} THEN [@ EXCEPT ![cmp + 1] = s] ELSE Append(@, s),
                  !.entity_script_map[entity] = cmp,
                  !.next_obj = @ + 1,
                  !.report.cmp = cmp]

destroyComponent(L, component) ==
    LET L1 == eraseUpdates(L, 0, Len(L.updates), component)
        L2 == unloadScriptsOf(L1, component, 0)
    IN  [L2 EXCEPT !.entity_script_map[L.scripts[component + 1].entity] = INVALID_COMPONENT,
                   !.scripts[component + 1] = NoComponent]

\* LuaScriptSceneImpl::update
LuaScene_update(L, paused) ==
    IF ~L.global_state \/ paused THEN L
    ELSE [L EXCEPT !.report.dead_update =
              \E k \in DOMAIN L.updates : L.updates[k].owner \notin LiveObjects(L)]

insertScript(L, c, idx) ==
    [L EXCEPT !.scripts[c + 1].scripts = emplaceAt(@, idx, NewInstance)]

addScript(L, c) ==
    [L EXCEPT !.scripts[c + 1].scripts = Append(@, NewInstance)]

removeScript(L, c, scr_index) ==
    LET p  == InstanceAt(L, c, scr_index).script
        L1 == IF p # NoScript THEN ScriptManager_unload(L, p) ELSE L
    IN  [L1 EXCEPT !.scripts[c + 1].scripts = eraseFast(@, scr_index)]

(* Blobs: the sequence of the values written, read back in order *)
RECURSIVE writeProperties(_, _)
writeProperties(props, j) ==
    IF j > Len(props) THEN << >>
    ELSE <<props[j].name_hash, props[j].value>> \o writeProperties(props, j + 1)

readProperties(blob, pos, count) ==
    [j \in 1 .. count |->
        [name_hash |-> blob[pos + 2 * (j - 1)], value |-> blob[pos + 2 * (j - 1) + 1]]]

serializeScript(L, c, scr_index) ==
    LET scr == InstanceAt(L, c, scr_index)
    IN  <<scr.script, Len(scr.properties)>> \o writeProperties(scr.properties, 1)

deserializeScript(L, c, scr_index, blob) ==
    ScriptManager_load(
        [L EXCEPT !.scripts[c + 1].scripts[scr_index + 1].script = blob[1],
                  !.scripts[c + 1].scripts[scr_index + 1].properties =
                      readProperties(blob, 3, blob[2])],
        blob[1])

RECURSIVE writeScripts(_, _)
writeScripts(scrs, j) ==
    IF j > Len(scrs) THEN << >>
    ELSE <<scrs[j].script, Len(scrs[j].properties)>>
             \o writeProperties(scrs[j].properties, 1) \o writeScripts(scrs, j + 1)

RECURSIVE writeComponents(_, _)
writeComponents(cs, i) ==
    IF i > Len(cs) THEN << >>
    ELSE (IF cs[i].obj = 0 THEN <<FALSE>>
          ELSE <<TRUE, cs[i].entity, Len(cs[i].scripts)>> \o writeScripts(cs[i].scripts, 1))
             \o writeComponents(cs, i + 1)

serialize(L) == <<Len(L.scripts)>> \o writeComponents(L.scripts, 1)

\* the loop of deserialize over the scripts of component i, j scripts read so
\* far; the result carries the scene and the read position
RECURSIVE readScripts(_, _, _, _, _, _)
readScripts(L, blob, pos, i, j, scr_count) ==
    IF j >= scr_count THEN [scene |-> L, pos |-> pos]
    ELSE LET L1 == addScript(L, i)
             L2 == setScriptPath(L1, i, j, blob[pos])
             prop_count == blob[pos + 1]
             L3 == [L2 EXCEPT !.scripts[i + 1].scripts[j + 1].state = FALSE,
                              !.scripts[i + 1].scripts[j + 1].properties =
                                  readProperties(blob, pos + 2, prop_count)]
         IN  readScripts(L3, blob, pos + 2 + 2 * prop_count, i, j + 1, scr_count)

RECURSIVE readComponents(_, _, _, _, _)
readComponents(L, blob, pos, i, len) ==
    IF i >= len THEN L
    ELSE IF ~blob[pos]
         THEN readComponents([L EXCEPT !.scripts = Append(@, NoComponent)],
                             blob, pos + 1, i + 1, len)
         ELSE LET entity == blob[pos + 1]
                  L1 == [L EXCEPT !.scripts = Append(@, [obj |-> L.next_obj, entity |-> entity,
                                                         scripts |-> << >>]),
                                  !.next_obj = @ + 1,
                                  !.entity_script_map[entity] = i]
                  r  == readScripts(L1, blob, pos + 3, i, 0, blob[pos + 2])
              IN  readComponents(r.scene, blob, r.pos, i + 1, len)

deserialize(L, blob) == readComponents(unloadAllScripts(L), blob, 2, 0, blob[1])

(***************************************************************************)
(* EngineImpl: the pause flag, the single-step request and the update that *)
(* hands both to the scenes and the plugins.  Time is in milliseconds.     *)
(***************************************************************************)
MaxFrames == 3
Ticks == {16, 40}
Multipliers == {1, 2}
StepDelta == 33

\* the members as the constructor's initializer list leaves them; op, scenes
\* and plugins record the last call and what it handed on
EngineInit ==
    [paused |-> FALSE, next_frame |-> FALSE, time_multiplier |-> 1,
     last_time_delta |-> 0, fps_frame |-> 0,
     op |-> "init",
     scenes |-> [called |-> FALSE, dt |-> 0, paused |-> FALSE],
     plugins |-> [called |-> FALSE, dt |-> 0, paused |-> FALSE]]

\* variant: the update of a single step leaves the engine running
Engine_update_NoRepause(E, tick, fps_due) ==
    LET single == E.next_frame
        dt     == IF single THEN StepDelta ELSE tick * E.time_multiplier
        p      == IF single THEN FALSE ELSE E.paused
    IN  [E EXCEPT !.fps_frame = IF fps_due THEN 0 ELSE @ + 1,
                  !.paused = p,
                  !.next_frame = FALSE,
                  !.last_time_delta = dt,
                  !.scenes = [called |-> TRUE, dt |-> dt, paused |-> p],
                  !.plugins = [called |-> TRUE, dt |-> dt, paused |-> p],
                  !.op = "update"]

\* EngineImpl::update: tick is what the timer returns, fps_due tells whether
\* the fps timer has passed half a second
Engine_update(E, tick, fps_due) ==
    LET single == E.next_frame
        dt     == IF single THEN StepDelta ELSE tick * E.time_multiplier
        p      == IF single THEN FALSE ELSE E.paused
    IN  [E EXCEPT !.fps_frame = IF fps_due THEN 0 ELSE @ + 1,
                  !.paused = IF single THEN TRUE ELSE p,
                  !.next_frame = IF single THEN FALSE ELSE @,
                  !.last_time_delta = dt,
                  !.scenes = [called |-> TRUE, dt |-> dt, paused |-> p],
                  !.plugins = [called |-> TRUE, dt |-> dt, paused |-> p],
                  !.op = "update"]

StartsFrom(W) ==
    /\ mat = W.mat /\ tex = W.tex /\ shd = W.shd
    /\ lua = SceneInit /\ eng = EngineInit

\* a call of the application, counted against the budget
AppCall == ops < MaxOps /\ ops' = ops + 1

Init ==
    /\ StartsFrom(ConstructedWorld)
    /\ ops = 0
    /\ last = [op |-> "init", m |-> "", arg |-> NoArg, ok |-> TRUE, gi |-> 0, warn |-> 0,
               stale |-> FALSE, oob |-> FALSE, early |-> FALSE, unhandled |-> FALSE,
               rep |-> FALSE]

\* the material manager starts the asynchronous read of a material file
StartLoad(m) ==
    /\ mat[m].state = "EMPTY"
    /\ AppCall
    /\ mat' = [mat EXCEPT ![m].state = "LOADING"]
    /\ last' = Report("startLoad", m, NoArg, World, TRUE)
    /\ UNCHANGED <<tex, shd, lua, eng>>

\* the read completes and Material::load parses document d
FileLoaded(m, d) ==
    /\ mat[m].state = "LOADING" /\ ~mat[m].loaded
    /\ UNCHANGED ops
    /\ ReturnsResult("load", m, [NoArg EXCEPT !.d = d], fileLoaded(World, m, Docs[d]))

\* the decode of a texture completes
TextureLoaded(t, ok) ==
    /\ tex[t].state = "LOADING"
    /\ UNCHANGED ops
    /\ Returns("textureLoaded", "", NoArg,
               notifyAll([World EXCEPT !.tex[t].state = IF ok THEN "READY" ELSE "FAILURE"],
                         MatIds),
               ok)

\* the decode of a shader completes
ShaderLoaded(s) ==
    /\ shd[s].state = "LOADING"
    /\ UNCHANGED ops
    /\ Returns("shaderLoaded", "", NoArg, shaderLoaded(World, s, SchemaOf(s)), TRUE)

\* the texture manager removes the unreferenced textures from its cache
Sweep ==
    /\ \E t \in TexIds : tex[t].cached /\ tex[t].ref = 0
    /\ tex' = [t \in TexIds |-> IF tex[t].cached /\ tex[t].ref = 0 THEN FreshTexture ELSE tex[t]]
    /\ last' = Report("sweep", "", NoArg, World, TRUE)
    /\ UNCHANGED <<mat, shd, ops, lua, eng>>

SetTexturePath(m, i, path) ==
    /\ AppCall
    /\ Returns("setTexture", m, NoArg, setTexturePath(World, m, i, path), TRUE)

SetShader(m, s) ==
    /\ AppCall
    /\ Returns("setShader", m, NoArg,
               setShader(IF s = NullShader THEN World ELSE ShaderManagerLoad(World, s), m, s),
               TRUE)

SetDefine(m, define_idx, enabled) ==
    /\ AppCall
    /\ Returns("setDefine", m, [NoArg EXCEPT !.i = define_idx, !.en = enabled],
               setDefine(World, m, define_idx, enabled), TRUE)

\* the material manager unloads a material
Unload(m) ==
    /\ mat[m].state # "EMPTY"
    /\ AppCall
    /\ Returns("unload", m, NoArg, doUnload(World, m), TRUE)

Next ==
    \/ \E m \in MatIds : StartLoad(m)
    \/ \E m \in MatIds, d \in DocIds : d \in DocsOf(m) /\ FileLoaded(m, d)
    \/ \E t \in TexIds, ok \in BOOLEAN : (ok \/ t \in Undecodable) /\ TextureLoaded(t, ok)
    \/ \E s \in ShaderIds : ShaderLoaded(s)
    \/ Sweep
    \/ \E m \in Editable, i \in Slots, path \in TexIds \cup {NullTex} : SetTexturePath(m, i, path)
    \/ \E m \in Editable, s \in (ShaderIds \ {DefaultShader}) \cup {NullShader} : SetShader(m, s)
    \/ \E m \in Editable, k \in DefineIdxs, en \in BOOLEAN : SetDefine(m, k, en)
    \/ \E m \in MatIds : Unload(m)

Spec == Init /\ [][Next]_vars

----------------------------------------------------------------------------
(* The life cycle of a single material, from the moment its first read has
   been started *)

LifeDocs == {1, 2}

InitLife ==
    /\ StartsFrom([ConstructedWorld EXCEPT !.mat["m1"].state = "LOADING"])
    /\ ops = 0
    /\ last = [op |-> "startLoad", m |-> "m1", arg |-> NoArg, ok |-> TRUE, gi |-> 0,
               warn |-> 0, stale |-> FALSE, oob |-> FALSE, early |-> FALSE,
               unhandled |-> FALSE, rep |-> FALSE]

NextLife ==
    \/ \E m \in Editable : StartLoad(m)
    \/ \E m \in Editable, d \in LifeDocs : FileLoaded(m, d)
    \/ \E t \in TexIds : TextureLoaded(t, TRUE)
    \/ \E s \in ShaderIds : ShaderLoaded(s)
    \/ Sweep
    \/ \E m \in Editable, i \in Slots, path \in TexIds \cup {NullTex} : SetTexturePath(m, i, path)
    \/ \E m \in Editable : Unload(m)

SpecLife == InitLife /\ [][NextLife]_vars

----------------------------------------------------------------------------
(* Parsing and saving: one material loads any of the files, is edited, and
   is saved and read back into the other, freshly constructed material *)

Other(m) == CHOOSE n \in MatIds : n # m

\* Material::save of m into a document, Material::load of it into n
SaveAndReload(m, n) ==
    /\ isReady(World, m)
    /\ n # m /\ mat[n] = ConstructedWorld.mat[n]
    /\ AppCall
    /\ save(World, m).ok
    /\ ReturnsResult("reload", n, NoArg,
                     fileLoaded([World EXCEPT !.mat[n].state = "LOADING"], n,
                                save(World, m).doc))

NextDoc ==
    \/ \E m \in Editable : StartLoad(m)
    \/ \E m \in Editable, d \in DocIds : FileLoaded(m, d)
    \/ \E t \in TexIds : TextureLoaded(t, TRUE)
    \/ \E s \in ShaderIds : ShaderLoaded(s)
    \/ \E m \in Editable, i \in Slots, path \in TexIds \cup {NullTex} : SetTexturePath(m, i, path)
    \/ \E m \in Editable, s \in (ShaderIds \ {DefaultShader}) \cup {NullShader} : SetShader(m, s)
    \/ \E m \in Editable, k \in DefineIdxs, en \in BOOLEAN : SetDefine(m, k, en)
    \/ \E m \in Editable : Unload(m)
    \/ \E m \in Editable : SaveAndReload(m, Other(m))

SpecDoc == Init /\ [][NextDoc]_vars

----------------------------------------------------------------------------
(* Readiness reconciliation: a material whose file lists any uniforms meets
   a shader that declares any schema *)

MaxParsed == 3

RecNames == {"a", "b", "z"}

SchemaNames == {"a", "b", "c"}

TypeOfName(n) == CASE n = "a" -> "FLOAT" [] n = "b" -> "TIME" [] OTHER -> "VEC3"

\* the uniform lists a file can hold; the value of an entry tells where it stood
ParsedLists ==
    UNION {[1 .. n -> RecNames] : n \in 0 .. MaxParsed}

\* the schemas a shader source can declare: distinct names, any order
Schemas ==
    {sq \in UNION {[1 .. n -> SchemaNames] : n \in 0 .. Cardinality(SchemaNames)} :
        \A i, j \in DOMAIN sq : sq[i] = sq[j] => i = j}

SchemaFrom(sq) ==
    [uniforms |-> [i \in DOMAIN sq |-> [name_hash |-> sq[i], type |-> TypeOfName(sq[i])]],
     slots |-> << -1 >>,
     render_states |-> {}]

\* the file of a material that names shader s1 and lists the uniforms U
ReconDoc(U, shader_first) ==
    LET us == [k |-> "uniforms",
               v |-> [j \in DOMAIN U |-> << [k |-> "name", v |-> U[j]],
                                            [k |-> "float_value", v |-> j] >>]]
        sh == [k |-> "shader", v |-> "s1"]
    IN  IF shader_first THEN << sh, us >> ELSE << us, sh >>

\* m1 is being read; m2 has been read and waits for shader s1
ReconWorld ==
    LET W1 == [ConstructedWorld EXCEPT !.mat["m1"].state = "LOADING",
                                       !.mat["m2"].state = "LOADING"]
    IN  fileLoaded(W1, "m2", DocEmptySource).w

InitRecon ==
    /\ StartsFrom(ReconWorld)
    /\ ops = 0
    /\ last = [op |-> "load", m |-> "m2", arg |-> [NoArg EXCEPT !.d = 4], ok |-> TRUE,
               gi |-> 0, warn |-> 0, stale |-> FALSE, oob |-> FALSE, early |-> FALSE,
               unhandled |-> FALSE, rep |-> FALSE]

\* the read of m completes with a file that lists the uniforms U
ReconFileLoaded(m, U, shader_first) ==
    /\ mat[m].state = "LOADING" /\ ~mat[m].loaded
    /\ UNCHANGED ops
    /\ ReturnsResult("load", m, NoArg, fileLoaded(World, m, ReconDoc(U, shader_first)))

\* the decode of shader s completes with the schema sq
ReconShaderLoaded(s, sq) ==
    /\ shd[s].state = "LOADING"
    /\ UNCHANGED ops
    /\ Returns("shaderLoaded", "", NoArg, shaderLoaded(World, s, SchemaFrom(sq)), TRUE)

NextRecon ==
    \/ \E U \in ParsedLists, f \in BOOLEAN : ReconFileLoaded("m1", U, f)
    \/ \E sq \in Schemas : ReconShaderLoaded("s1", sq)

SpecRecon == InitRecon /\ [][NextRecon]_vars

----------------------------------------------------------------------------
(* Uniform types: one material is loaded and edited while shader s1        *)
(* declares uniforms of any of the types Material::save has a case for.    *)

\* number of uniforms of the shader in these runs
MaxTyped == 2

\* the enumerators of Shader::Uniform::Type that Material::save writes
UniformTypeNames == {"FLOAT", "COLOR", "VEC3", "TIME", "INT", "MATRIX4"}

TypeLists == UNION {[1 .. n -> UniformTypeNames] : n \in 0 .. MaxTyped}

\* a shader source whose i-th uniform has the type ts[i]; slot 0 is tied to define 0
TypedSchema(ts) ==
    [uniforms |-> [i \in DOMAIN ts |-> [name_hash |-> <<"a", "b", "c">>[i], type |-> ts[i]]],
     slots |-> << 0, -1 >>,
     render_states |-> {"cull"}]

\* the files of these runs: all name shader s1
TypedDocs == {1, 4}

\* the decode of shader s completes with uniforms of the types ts
TypedShaderLoaded(s, ts) ==
    /\ shd[s].state = "LOADING"
    /\ UNCHANGED ops
    /\ Returns("shaderLoaded", "", NoArg, shaderLoaded(World, s, TypedSchema(ts)), TRUE)

NextTypes ==
    \/ \E m \in Editable, d \in TypedDocs : FileLoaded(m, d)
    \/ \E t \in TexIds : TextureLoaded(t, TRUE)
    \/ \E ts \in TypeLists : TypedShaderLoaded("s1", ts)
    \/ \E m \in Editable, i \in Slots, path \in {TexT, NullTex} : SetTexturePath(m, i, path)

SpecTypes == InitLife /\ [][NextTypes]_vars

----------------------------------------------------------------------------
(* Properties of the mutators and of the reference counts, under Spec *)

Mutators == {"setTexture", "setShader", "setDefine"}

\* C2: after a Material mutator returns on a material the renderer may read
\* (a READY one), the command buffer is the one createCommandBuffer produces
\* from the current shader, textures and uniforms.
C2_CommandBufferConsistent ==
    \A m \in MatIds :
        (last.op \in Mutators /\ last.m = m /\ isReady(World, m))
            => mat[m].command_buffer = GeneratedBuffer(World, m)

\* C3: a texture's reference count is never negative, a texture nobody
\* references is torn down, and two materials that loaded the same path share
\* one instance whose count covers both.
C3_TextureRefCountSound ==
    \A t \in TexIds :
        /\ tex[t].ref >= 0
        /\ (tex[t].ref = 0 => tex[t].state = "EMPTY")
        /\ ((\A m \in MatIds : mat[m].texture_count > 0 /\ mat[m].textures[0] = t
                               /\ mat[m].regT[t] > 0)
               => tex[t].ref >= Cardinality(MatIds))

\* C4: a READY material has finished its own load and has no pending
\* dependency: every texture and shader it is registered on is READY.
C4_ReadyOnlyWithoutPendingDependencies ==
    \A m \in MatIds :
        isReady(World, m) =>
            /\ mat[m].loaded
            /\ DepCount(World, m) = 0
            /\ \A t \in TexIds : mat[m].regT[t] > 0 => tex[t].state = "READY"
            /\ \A s \in ShaderIds : mat[m].regS[s] > 0 => shd[s].state = "READY"

\* C5: once constructed, a material's shader reference is never null after an
\* operation returns; without a shader of its own it holds the default shader.
C5_ShaderNeverNull ==
    \A m \in MatIds :
        /\ mat[m].shader # NullShader
        /\ ((\A s \in ShaderIds : mat[m].regS[s] = 0) => mat[m].shader = DefaultShader)

C5_Witness ==
    /\ last.op = "setShader"
    /\ mat["m1"].shader = DefaultShader
    /\ shd["s1"].cached /\ shd["s1"].ref = 0
    /\ mat["m1"].state = "READY"

\* C9: a setDefine call that repeats the previous call on a READY material,
\* one that does not change the mask, and one on a material that is not READY
\* perform no shader-instance lookup and leave mask and instance as they
\* were; a call that changes the mask of a READY material performs one.
C9_SetDefineStep ==
    last'.op = "setDefine" =>
        LET m == last'.m
            k == last'.arg.i
            new_mask == IF last'.arg.en THEN mat[m].define_mask \cup {k}
                        ELSE mat[m].define_mask \ {k}
        IN  /\ (last'.rep /\ isReady(World, m)) =>
                  /\ last'.gi = 0
                  /\ mat'[m].define_mask = mat[m].define_mask
                  /\ mat'[m].shader_instance = mat[m].shader_instance
            /\ (new_mask = mat[m].define_mask \/ ~isReady(World, m)) =>
                  /\ last'.gi = 0
                  /\ mat'[m].shader_instance = mat[m].shader_instance
            /\ (new_mask # mat[m].define_mask /\ isReady(World, m)) =>
                  /\ last'.gi = 1
                  /\ mat'[m].shader_instance = getInstance(World, mat[m].shader, new_mask)

C9_IdempotentDefineToggle == [][C9_SetDefineStep]_vars

C9_Witness ==
    /\ last.op = "setDefine" /\ last.rep /\ last.gi = 0
    /\ isReady(World, last.m)
    /\ last.arg.en /\ last.arg.i \in mat[last.m].define_mask
    /\ mat[last.m].shader_instance.mask = mat[last.m].define_mask

----------------------------------------------------------------------------
(* Properties of Material::load and Material::save, under SpecDoc *)

HasKey(doc, k) == \E i \in DOMAIN doc : doc[i].k = k

TextureLabels ==
    {"source", "atlas_size", "min_filter", "mag_filter", "u_clamp", "v_clamp",
     "w_clamp", "keep_data", "srgb"}

TopLabels ==
    {"defines", "uniforms", "texture", "alpha_ref", "layer_count", "color",
     "shininess", "shader"}

\* a texture block of the document holds a label deserializeTexture does not know
HasBadTextureBlock(doc) ==
    \E i \in DOMAIN doc :
        /\ doc[i].k = "texture"
        /\ \E j \in DOMAIN doc[i].v : doc[i].v[j].k \notin TextureLabels

\* the document holds a label unknown to load or to a uniform object
HasUnknownLabel(doc) ==
    \/ \E i \in DOMAIN doc : doc[i].k \notin TopLabels
    \/ \E i \in DOMAIN doc :
          /\ doc[i].k = "uniforms"
          /\ \E j \in DOMAIN doc[i].v :
                \E l \in DOMAIN doc[i].v[j] :
                    doc[i].v[j][l].k \notin UniformValueLabels \cup {"name"}

RECURSIVE Keep(_, _, _)
Keep(sq, known, i) ==
    IF i > Len(sq) THEN << >>
    ELSE (IF sq[i].k \in known THEN << sq[i] >> ELSE << >>) \o Keep(sq, known, i + 1)

StripUniforms(list) ==
    [j \in DOMAIN list |-> Keep(list[j], UniformValueLabels \cup {"name"}, 1)]

\* the document without its unknown top-level and uniform-object labels
StripUnknown(doc) ==
    LET top == Keep(doc, TopLabels, 1)
    IN  [i \in DOMAIN top |->
            IF top[i].k = "uniforms"
            THEN [k |-> "uniforms", v |-> StripUniforms(top[i].v)]
            ELSE top[i]]

\* C6: Material::load of a document without a `shader` key returns false and
\* the material does not become READY.
C6_NoShaderKeyFails ==
    (last.op = "load" /\ ~HasKey(Docs[last.arg.d], "shader"))
        => (~last.ok /\ mat[last.m].state # "READY")

\* C7: a load of a document with an unknown label inside a texture block
\* returns false and leaves the material in FAILURE, wherever the label stands
\* in the block and whatever surrounds the block; a material in FAILURE does
\* not become READY.
C7_Step ==
    /\ (last'.op = "load" /\ HasBadTextureBlock(Docs[last'.arg.d]))
          => (~last'.ok /\ mat'[last'.m].state = "FAILURE")
    /\ \A m \in MatIds :
          mat[m].state = "FAILURE" => mat'[m].state \in {"FAILURE", "EMPTY"}

C7_UnknownTextureKeyAborts == [][C7_Step]_vars

C7_Witness ==
    /\ last.op = "load" /\ last.arg.d = 6 /\ ~last.ok
    /\ mat[last.m].state = "FAILURE"
    /\ mat[last.m].shader = DefaultShader

\* C8: a load of a document with an unknown top-level or uniform-object label
\* returns true, logs a warning, and leaves materials, textures and shaders
\* as the load of the same document without those labels leaves them.
LoadedAs(ref) ==
    ref.ok =>
        /\ last'.ok
        /\ last'.warn >= 1
        /\ mat' = ref.w.mat /\ tex' = ref.w.tex /\ shd' = ref.w.shd

C8_Step ==
    (last'.op = "load" /\ HasUnknownLabel(Docs[last'.arg.d]))
        => LoadedAs(fileLoaded(World, last'.m, StripUnknown(Docs[last'.arg.d])))

C8_UnknownKeyIgnored == [][C8_Step]_vars

C8_Witness ==
    /\ last.op = "load" /\ last.arg.d = 5 /\ last.ok /\ last.warn = 3
    /\ mat[last.m].shininess = 8
    /\ mat[last.m].texture_count = 2

\* the fields of the round trip other than the uniform values
SameButUniforms(M, N, told, tnew) ==
    /\ N.shader = M.shader
    /\ N.texture_count = M.texture_count
    /\ \A i \in Slots :
          i < M.texture_count =>
              /\ N.textures[i] = M.textures[i]
              /\ M.textures[i] # NullTex =>
                    tnew[M.textures[i]].flags = told[M.textures[i]].flags
    /\ N.define_mask = M.define_mask
    /\ N.shininess = M.shininess
    /\ N.alpha_ref = M.alpha_ref
    /\ N.color = M.color

\* C10 as stated: saving a READY material and loading the document into a
\* fresh one yields the same shader, textures and flags, defines, uniform
\* values in schema order, shininess, alpha_ref and color.
C10_RoundTripStep ==
    last'.op = "reload" =>
        LET n == last'.m
            M == mat[Other(n)]
            N == mat'[n]
        IN  /\ last'.ok /\ N.state = "READY"
            /\ SameButUniforms(M, N, tex, tex')
            /\ \A i \in 1 .. Len(shd[M.shader].uniforms) :
                  UniformAt(N, i).value = UniformAt(M, i).value

HoldsItsTextures(m) ==
    \A i \in Slots :
        (i < mat[m].texture_count /\ mat[m].textures[i] # NullTex)
            => mat[m].regT[mat[m].textures[i]] > 0

\* the define bits tied to texture slots say which of those slots are bound
SlotDefinesAgree(m) ==
    mat[m].define_mask = SlotDefines(World, m, mat[m].define_mask, 0)

\* C10 amended: for a READY material that holds a reference on each texture
\* it binds and whose slot-tied define bits agree with its bound slots, the
\* round trip yields the same shader, textures and flags, defines, shininess,
\* alpha_ref and color, and the same value for every uniform whose type is
\* not TIME.
C10_RoundTripButTimeStep ==
    (last'.op = "reload" /\ HoldsItsTextures(Other(last'.m))
                         /\ SlotDefinesAgree(Other(last'.m))) =>
        LET n == last'.m
            M == mat[Other(n)]
            N == mat'[n]
        IN  /\ last'.ok /\ N.state = "READY"
            /\ SameButUniforms(M, N, tex, tex')
            /\ \A i \in 1 .. Len(shd[M.shader].uniforms) :
                  shd[M.shader].uniforms[i].type # "TIME" =>
                      UniformAt(N, i).value = UniformAt(M, i).value

----------------------------------------------------------------------------
(* Properties of the readiness reconciliation, under SpecRecon *)

\* C1: the uniform table of a READY material has at least as many entries as
\* its shader's schema, and entry i carries the name of the schema's entry i,
\* whatever uniform list the file held.
C1_UniformsAligned ==
    \A m \in MatIds :
        isReady(World, m) =>
            LET schema == shd[mat[m].shader].uniforms
            IN  /\ Len(mat[m].uniforms) >= Len(schema)
                /\ \A i \in 1 .. Len(schema) :
                      mat[m].uniforms[i].name_hash = schema[i].name_hash

\* a longer list with a name the schema lacks, reordered against the schema
C1_Witness ==
    /\ isReady(World, "m1") /\ mat["m1"].shader = "s1"
    /\ Len(shd["s1"].uniforms) = 2
    /\ Len(mat["m1"].uniforms) > 2
    /\ mat["m1"].uniforms[1].value = 3
    /\ \E i \in DOMAIN mat["m1"].uniforms : mat["m1"].uniforms[i].name_hash = "z"

----------------------------------------------------------------------------
(* Properties of the loaded values, under SpecDoc *)

\* the value of the first entry of doc with label k
ValueOf(doc, k) == doc[MinOf({i \in DOMAIN doc : doc[i].k = k})].v

TextureBlocks(doc) == {i \in DOMAIN doc : doc[i].k = "texture"}

\* the document declares one texture, with a source and srgb: true
DeclaresOneSrgbTexture(doc) ==
    /\ Cardinality(TextureBlocks(doc)) = 1
    /\ ~HasBadTextureBlock(doc)
    /\ \A i \in TextureBlocks(doc) :
          /\ HasKey(doc[i].v, "source") /\ ValueOf(doc[i].v, "source") # << >>
          /\ HasKey(doc[i].v, "srgb") /\ ValueOf(doc[i].v, "srgb")

\* the texture a source names in a file of material m
SourceTexture(m, path) ==
    NormalizePath(IF path[1] # "/" /\ path[1] # "\\" THEN MaterialDir(m) \o path ELSE path)

\* what the load of a document with alpha_ref and one srgb texture into a
\* material without textures leaves, the alpha reference apart
LoadedScenario ==
    (/\ last'.op = "load" /\ HasKey(Docs[last'.arg.d], "shader")
     /\ HasKey(Docs[last'.arg.d], "alpha_ref")
     /\ DeclaresOneSrgbTexture(Docs[last'.arg.d])
     /\ mat[last'.m].texture_count = 0) =>
        LET m   == last'.m
            doc == Docs[last'.arg.d]
            t   == SourceTexture(m, ValueOf(doc[MinOf(TextureBlocks(doc))].v, "source"))
        IN  /\ last'.ok
            /\ mat'[m].alpha_ref = ValueOf(doc, "alpha_ref")
            /\ mat'[m].texture_count = 1
            /\ mat'[m].textures[0] = t
            /\ "SRGB" \in tex'[t].flags

\* the material M is READY with the shader its file named, a dependency of its own
ReadyWithOwnShader(M) ==
    M.state = "READY" /\ M.shader # NullShader /\ M.regS[M.shader] > 0

\* C11 as stated: after the load of a document with alpha_ref = a and one srgb
\* texture, the texture is in slot 0 with the SRGB flag, and once the material
\* is READY with its shader the alpha-reference byte of its render states is
\* round(a * 255).
C11_AlphaRefRoundedStep ==
    /\ LoadedScenario
    /\ \A m \in MatIds :
          ReadyWithOwnShader(mat'[m]) =>
              mat'[m].render_states.alpha = (mat'[m].alpha_ref * 255 + 500) \div 1000

C11_AlphaRefRounded == [][C11_AlphaRefRoundedStep]_vars

\* C11 amended: the same, with the alpha-reference byte being a * 255
\* truncated to an integer (127 for a = 0.5).
C11_AlphaRefTruncatedStep ==
    /\ LoadedScenario
    /\ \A m \in MatIds :
          ReadyWithOwnShader(mat'[m]) =>
              mat'[m].render_states.alpha = (mat'[m].alpha_ref * 255) \div 1000

C11_AlphaRefTruncated == [][C11_AlphaRefTruncatedStep]_vars

\* the basic document has been loaded with alpha_ref 0.5 and the material is READY
C11_Witness ==
    /\ last.op = "load" /\ last.arg.d = 1 /\ last.ok
    /\ isReady(World, last.m)
    /\ mat[last.m].alpha_ref = 500 /\ mat[last.m].render_states.alpha = 127
    /\ mat[last.m].texture_count = 1 /\ mat[last.m].textures[0] = TexT
    /\ "SRGB" \in tex[TexT].flags

----------------------------------------------------------------------------
(* Properties of the mutators on a READY material, under Spec *)

\* the world after the step
WorldNext == [mat |-> mat', tex |-> tex', shd |-> shd', gi |-> 0, warn |-> 0,
              stale |-> FALSE, oob |-> FALSE, unregT |-> NullTex, unregS |-> NullShader,
              early |-> FALSE, unhandled |-> FALSE]

\* the slots of the shader in which the material binds a texture
BoundSlots(W, m) ==
    {i \in 0 .. (getTextureSlotCount(W, W.mat[m].shader) - 1) :
        i < W.mat[m].texture_count /\ TextureAt(W.mat[m], i) # NullTex}

UniformTypes(W, m) ==
    [i \in 1 .. getUniformCount(W, W.mat[m].shader) |->
        W.shd[W.mat[m].shader].uniforms[i].type]

\* a mutator returned on a material that was and is READY
MutatorOnReady(m) ==
    last'.op \in Mutators /\ last'.m = m /\ isReady(World, m) /\ isReady(WorldNext, m)

\* C12 as stated: a mutator on a READY material leaves a command buffer
\* whose byte length differs from the previous one only if the shader's
\* uniform count or texture-slot count changed.
C12_LengthFollowsCountsStep ==
    \A m \in MatIds :
        (/\ MutatorOnReady(m)
         /\ getUniformCount(WorldNext, mat'[m].shader) = getUniformCount(World, mat[m].shader)
         /\ getTextureSlotCount(WorldNext, mat'[m].shader)
               = getTextureSlotCount(World, mat[m].shader))
            => getSize(mat'[m].command_buffer, 1) = getSize(mat[m].command_buffer, 1)

C12_LengthFollowsLayoutStep ==
    \A m \in MatIds :
        (/\ MutatorOnReady(m)
         /\ mat[m].command_buffer = GeneratedBuffer(World, m)
         /\ UniformTypes(WorldNext, m) = UniformTypes(World, m)
         /\ getTextureSlotCount(WorldNext, mat'[m].shader)
               = getTextureSlotCount(World, mat[m].shader)
         /\ BoundSlots(WorldNext, m) = BoundSlots(World, m))
            => getSize(mat'[m].command_buffer, 1) = getSize(mat[m].command_buffer, 1)

C13_SetTextureStep ==
    \A m \in Editable, i \in Slots, path \in TexIds \cup {NullTex} :
        (/\ SetTexturePath(m, i, path)
         /\ isReady(WorldNext, m)
         /\ SlotDefineIdx(WorldNext, mat'[m].shader, i) >= 0) =>
            /\ mat'[m].textures[i] = path
            /\ (SlotDefineIdx(WorldNext, mat'[m].shader, i) \in mat'[m].define_mask)
                  <=> (path # NullTex)
            /\ mat'[m].command_buffer = GeneratedBuffer(WorldNext, m)
            /\ mat'[m].shader_instance
                  = getInstance(WorldNext, mat'[m].shader, mat'[m].define_mask)

C13_SetTextureSynchronous == [][C13_SetTextureStep]_vars

\* the texture of a define-tied slot of a READY material has been unbound
C13_Witness ==
    /\ last.op = "setTexture" /\ isReady(World, last.m)
    /\ mat[last.m].shader = "s1" /\ SlotDefineIdx(World, "s1", 0) = 0
    /\ mat[last.m].texture_count = 1 /\ mat[last.m].textures[0] = NullTex
    /\ tex[TexT].cached /\ tex[TexT].ref = 0
    /\ 0 \notin mat[last.m].define_mask
    /\ mat[last.m].shader_instance = getInstance(World, "s1", mat[last.m].define_mask)

\* the references and registrations setShader(s) moves on shader x when the
\* material held old: one more on s, one less on old unless old is the default
ShaderDelta(x, old, s) ==
    (IF x = s THEN 1 ELSE 0) - (IF x = old /\ old # DefaultShader THEN 1 ELSE 0)

\* C14: setShader(s) releases the shader held so far exactly once, in
\* registration and in reference count, unless it is the engine default, which
\* is never released; afterwards the material holds s and is registered on
\* it, or holds the default shader when s is null.
C14_SetShaderStep ==
    \A m \in Editable, s \in (ShaderIds \ {DefaultShader}) \cup {NullShader} :
        SetShader(m, s) =>
            /\ \A x \in ShaderIds :
                  /\ shd'[x].ref = shd[x].ref + ShaderDelta(x, mat[m].shader, s)
                  /\ mat'[m].regS[x] = mat[m].regS[x] + ShaderDelta(x, mat[m].shader, s)
            /\ shd'[DefaultShader].ref = 1 /\ mat'[m].regS[DefaultShader] = 0
            /\ mat'[m].shader = IF s = NullShader THEN DefaultShader ELSE s
            /\ s # NullShader => mat'[m].regS[s] = 1

C14_SetShaderReleasesOnce == [][C14_SetShaderStep]_vars

\* m1 gave up shader s1 for the default one while m2 still holds s1
C14_Witness ==
    /\ last.op = "setShader" /\ last.m = "m1"
    /\ mat["m1"].loaded /\ mat["m1"].color = <<1, 1, 1>>
    /\ mat["m1"].shader = DefaultShader /\ mat["m1"].regS["s1"] = 0
    /\ mat["m2"].shader = "s1" /\ mat["m2"].regS["s1"] = 1
    /\ shd["s1"].ref = 1

\* uniform table, render states, define mask, command buffer and shader
\* instance of m are what the reconciliation against its shader leaves
Reconciled(W, m) ==
    LET M == W.mat[m]
        schema == W.shd[M.shader].uniforms
    IN  /\ Len(M.uniforms) >= Len(schema)
        /\ \A i \in 1 .. Len(schema) : M.uniforms[i].name_hash = schema[i].name_hash
        /\ M.render_states.bits = W.shd[M.shader].render_states
        /\ M.define_mask = SlotDefines(W, m, M.define_mask, 0)
        /\ M.command_buffer = GeneratedBuffer(W, m)
        /\ M.shader_instance = getInstance(W, M.shader, M.define_mask)

\* C15: setShader(s) with a READY shader s reconciles the material before it
\* returns; with a shader that is not READY it reconciles nothing and leaves
\* the material not READY; and whenever the material turns READY holding a
\* shader of its own, it is reconciled against that shader.
C15_SetShaderStep ==
    /\ \A m \in Editable, s \in ShaderIds \ {DefaultShader} :
          SetShader(m, s) =>
              IF shd'[s].state = "READY"
              THEN last'.gi >= 1 /\ Reconciled(WorldNext, m)
              ELSE /\ last'.gi = 0
                   /\ ~isReady(WorldNext, m)
                   /\ mat'[m].uniforms = mat[m].uniforms
                   /\ mat'[m].define_mask = mat[m].define_mask
                   /\ mat'[m].command_buffer = mat[m].command_buffer
    /\ \A m \in MatIds :
          (~isReady(World, m) /\ ReadyWithOwnShader(mat'[m])) => Reconciled(WorldNext, m)

C15_ReconciledWhenShaderReady == [][C15_SetShaderStep]_vars

\* setShader found s1 READY and reconciled the material during the call
C15_Witness ==
    /\ last.op = "setShader" /\ last.gi = 1
    /\ isReady(World, last.m) /\ mat[last.m].shader = "s1"
    /\ Len(mat[last.m].uniforms) = 2 /\ mat[last.m].uniforms[2].name_hash = "b"
    /\ Reconciled(World, last.m)

----------------------------------------------------------------------------
(* Properties of the texture slots, under SpecDoc *)

\* the texture blocks of a document, in declaration order
TextureBlockSeq(doc) == SelectSeq(doc, LAMBDA e : e.k = "texture")

\* the texture a block binds: none when its source is empty or missing
BlockTexture(m, block) ==
    IF HasKey(block, "source") /\ ValueOf(block, "source") # << >>
    THEN SourceTexture(m, ValueOf(block, "source"))
    ELSE NullTex

\* C16: a successful load into a material without textures (freshly
\* constructed, or unloaded before) puts the j-th texture block of the
\* document in slot j, a block with an empty source leaving its slot without
\* a texture, and leaves texture_count at the number of blocks.
C16_SlotsStep ==
    (last'.op = "load" /\ last'.ok /\ mat[last'.m].texture_count = 0) =>
        LET m      == last'.m
            blocks == TextureBlockSeq(Docs[last'.arg.d])
        IN  /\ mat'[m].texture_count = Len(blocks)
            /\ \A j \in 1 .. Len(blocks) :
                  mat'[m].textures[j - 1] = BlockTexture(m, blocks[j].v)

C16_SlotsInDeclarationOrder == [][C16_SlotsStep]_vars

----------------------------------------------------------------------------
(* Properties of the release paths, under Spec *)

\* C17: whenever an operation of a material has a manager unload a shader or
\* a texture (setTexture replacing a slot, setShader replacing a shader,
\* unload), the material has called removeDependency on that resource just
\* before.
C17_RemoveDependencyBeforeUnload == ~last.early

\* an unload released the material's texture and its shader
C17_Witness ==
    /\ last.op = "unload" /\ ~last.early
    /\ tex[TexT].cached /\ tex[TexT].ref = 0
    /\ shd["s1"].cached /\ shd["s1"].ref = 0
    /\ \A m \in MatIds : mat[m].regT[TexT] = 0 /\ mat[m].regS["s1"] = 0

\* the completion and readiness callbacks
Callbacks == {"load", "textureLoaded", "shaderLoaded"}

\* C18: no completion or readiness callback goes through a resource that
\* has been destroyed, whatever the order of loads, unloads, sweeps and
\* completions; the completion of a read that an unload overtook finds the
\* resource EMPTY and does nothing.
C18_CallbacksSeeNoDestroyedResource ==
    last.op \in Callbacks => ~last.stale

\* C19: texture_count never exceeds MAX_TEXTURE_COUNT and no operation
\* indexes the slot array outside [0, MAX_TEXTURE_COUNT).
C19_SlotsInBounds ==
    /\ \A m \in MatIds : mat[m].texture_count <= MAX_TEXTURE_COUNT
    /\ ~last.oob

\* C20: whenever a material is READY, and after every mutator returns on it,
\* its shader instance belongs to its current shader and is that shader's
\* instance for the current define mask.
C20_InstanceMatchesShaderAndMask ==
    \A m \in MatIds :
        (isReady(World, m) \/ (last.op \in Mutators /\ last.m = m)) =>
            /\ mat[m].shader_instance.s = mat[m].shader
            /\ mat[m].shader_instance = getInstance(World, mat[m].shader, mat[m].define_mask)

----------------------------------------------------------------------------
(* Properties of the dependency registrations, under Spec *)

\* the slots below texture_count in which m binds texture t
SlotsHolding(m, t) ==
    {i \in Slots : i < mat[m].texture_count /\ mat[m].textures[i] = t}

\* C21: after every operation the material is registered on each texture
\* bound in a slot below texture_count once per slot, on its shader once
\* unless it is the default one, and on nothing else.
C21_RegistrationsMatchReferences ==
    \A m \in MatIds :
        /\ \A t \in TexIds : mat[m].regT[t] = Cardinality(SlotsHolding(m, t))
        /\ \A s \in ShaderIds :
              mat[m].regS[s] = IF mat[m].shader = s /\ s # DefaultShader THEN 1 ELSE 0

----------------------------------------------------------------------------
(* Properties of a load after an earlier life of the object, under SpecDoc *)

\* the define bits of mask that no texture slot of shader s is tied to
FreeDefines(W, s, mask) ==
    {d \in mask : \A i \in 0 .. (getTextureSlotCount(W, s) - 1) : SlotDefineIdx(W, s, i) # d}

\* the fields of M that document doc leaves out have their default value
OmittedAreDefault(W, M, doc) ==
    /\ ~HasKey(doc, "alpha_ref") => M.alpha_ref = DEFAULT_ALPHA_REF_VALUE
    /\ ~HasKey(doc, "layer_count") => M.layer_count = 1
    /\ ~HasKey(doc, "shininess") => M.shininess = 4
    /\ ~HasKey(doc, "color") => M.color = <<1, 1, 1>>
    /\ ~HasKey(doc, "defines") => FreeDefines(W, M.shader, M.define_mask) = {}

C22_OmittedFieldsDefaultStep ==
    (last'.op = "load" /\ last'.ok) =>
        OmittedAreDefault(WorldNext, mat'[last'.m], Docs[last'.arg.d])

\* C22: after a successful load, every one of alpha_ref, layer_count,
\* shininess, color and defines that the document leaves out has its default
\* (0.3, 1, 4.0, (1,1,1), no define beyond those of the bound slots), whatever
\* the object held before the load.
C22_OmittedFieldsDefault == [][C22_OmittedFieldsDefaultStep]_vars

----------------------------------------------------------------------------
(* Properties of the uniform reconciliation, under SpecRecon *)

\* material m has parsed its file and waits for shader s
AwaitsShader(m, s) ==
    mat[m].loaded /\ mat[m].state = "LOADING" /\ mat[m].shader = s /\ shd[s].state = "LOADING"

ParsedNames(us) == {us[j].name_hash : j \in DOMAIN us}

C23_MissingUniformIsZeroStep ==
    \A m \in MatIds :
        (last'.op = "shaderLoaded" /\ AwaitsShader(m, "s1")) =>
            \A i \in DOMAIN shd'["s1"].uniforms :
                shd'["s1"].uniforms[i].name_hash \notin ParsedNames(mat[m].uniforms)
                    => mat'[m].uniforms[i] =
                           [name_hash |-> shd'["s1"].uniforms[i].name_hash, value |-> 0]

\* C23: when onBeforeReady meets a schema uniform whose name the parsed list
\* does not hold, the entry it places at the schema index has the schema's
\* name and the value zero, not the value of another parsed uniform.
C23_MissingUniformIsZero == [][C23_MissingUniformIsZeroStep]_vars

\* entry i of `after` carries a value that `parsed` holds under the name of
\* schema entry i, for every schema name that `parsed` holds
KeepsParsedValues(parsed, schema, after) ==
    \A i \in DOMAIN schema :
        schema[i].name_hash \in ParsedNames(parsed) =>
            \E j \in DOMAIN parsed :
                /\ parsed[j].name_hash = schema[i].name_hash
                /\ after[i].value = parsed[j].value

\* the uniform list that the file ReconDoc(U, f) holds
ParsedOf(U) == [j \in DOMAIN U |-> [name_hash |-> U[j], value |-> j]]

C24_NoParsedValueLostStep ==
    /\ \A m \in MatIds :
          (last'.op = "shaderLoaded" /\ AwaitsShader(m, "s1")) =>
              KeepsParsedValues(mat[m].uniforms, shd'["s1"].uniforms, mat'[m].uniforms)
    /\ (last'.op = "load" /\ shd["s1"].state = "READY") =>
          \A U \in ParsedLists, f \in BOOLEAN :
              ReconFileLoaded("m1", U, f) =>
                  KeepsParsedValues(ParsedOf(U), shd["s1"].uniforms, mat'["m1"].uniforms)

\* C24: onBeforeReady loses no parsed value: for every schema uniform whose
\* name the parsed list holds, the entry at its schema index carries the value
\* parsed under that name, whatever the order of the list and however many
\* earlier schema uniforms were missing from it.
C24_NoParsedValueLost == [][C24_NoParsedValueLostStep]_vars

\* the list [a, b] met the schema [c, b, a]: c was missing, a stood in its place
C24_Witness ==
    /\ last.op = "shaderLoaded" /\ isReady(World, "m1")
    /\ [i \in DOMAIN shd["s1"].uniforms |-> shd["s1"].uniforms[i].name_hash] = <<"c", "b", "a">>
    /\ mat["m1"].uniforms = << [name_hash |-> "c", value |-> 1],
                               [name_hash |-> "b", value |-> 2],
                               [name_hash |-> "a", value |-> 1] >>

----------------------------------------------------------------------------
(* Properties of the readiness reconciliation, under Spec *)

\* the define bits that the bound slots of material M decide under shader s
BoundDefines(W, M, s) ==
    {SlotDefineIdx(W, s, i) : i \in {k \in 0 .. (getTextureSlotCount(W, s) - 1) :
         /\ SlotDefineIdx(W, s, k) >= 0
         /\ k < M.texture_count
         /\ TextureAt(M, k) # NullTex}}

\* onBeforeReady ran last in the step: a completion made m READY, or
\* setShader installed a READY shader on m
RanOnBeforeReady(m) ==
    \/ /\ last'.op \in {"shaderLoaded", "textureLoaded"}
       /\ ~isReady(World, m) /\ ReadyWithOwnShader(mat'[m])
    \/ /\ last'.op = "setShader" /\ last'.m = m
       /\ mat'[m].shader # DefaultShader /\ shd'[mat'[m].shader].state = "READY"

C25_SlotDefinesFollowBindingsStep ==
    \A m \in MatIds :
        RanOnBeforeReady(m) =>
            mat'[m].define_mask =
                FreeDefines(WorldNext, mat'[m].shader, mat[m].define_mask)
                    \cup BoundDefines(WorldNext, mat'[m], mat'[m].shader)

\* C25: after onBeforeReady, the define bit of every shader slot tied to a
\* define is set exactly when a texture is bound in that slot, a slot at or
\* past texture_count counting as unbound, and every other define bit keeps
\* the value it had.
C25_SlotDefinesFollowBindings == [][C25_SlotDefinesFollowBindingsStep]_vars

\* the render states that alpha_ref and the shader of M decide
RenderStatesOf(W, M) ==
    [alpha |-> ((M.alpha_ref * 255) \div 1000) % 256,
     bits |-> W.shd[M.shader].render_states]

C26_RenderStatesFollowAlphaRefStep ==
    \A m \in MatIds :
        /\ RanOnBeforeReady(m) =>
               mat'[m].render_states = RenderStatesOf(WorldNext, mat'[m])
        /\ isReady(WorldNext, m) =>
               mat'[m].render_states.alpha = RenderStatesOf(WorldNext, mat'[m]).alpha

\* C26: after onBeforeReady the render states are the alpha-reference field
\* computed from the current alpha_ref together with the shader's base bits,
\* and whenever the material is READY the alpha-reference field corresponds
\* to alpha_ref, also when alpha_ref was read from the file after load had
\* written the default.
C26_RenderStatesFollowAlphaRef == [][C26_RenderStatesFollowAlphaRefStep]_vars

----------------------------------------------------------------------------
(* Properties of the command buffer generation, under SpecTypes *)

\* the step ended with createCommandBuffer on m: a completion made m READY,
\* or setTexture ran on a READY material
ProducedBuffer(m) ==
    /\ ReadyWithOwnShader(mat'[m])
    /\ \/ last'.op \in {"load", "shaderLoaded", "textureLoaded"} /\ ~isReady(World, m)
       \/ last'.op = "setTexture" /\ last'.m = m /\ isReady(World, m)

RECURSIVE Ascending(_)
Ascending(S) == IF S = {} THEN << >> ELSE << MinOf(S) >> \o Ascending(S \ {MinOf(S)})

\* buf holds one uniform operation per schema uniform in schema order, one
\* setTexture per bound slot in ascending order, the color and shininess
\* uniform and the end marker
WellFormedBuffer(W, m, buf, slots) ==
    LET M == W.mat[m]
        schema == W.shd[M.shader].uniforms
        n == Len(schema)
        k == Len(slots)
    IN  /\ Len(buf) = n + k + 2
        /\ \A i \in 1 .. n :
              /\ buf[i].h = schema[i].name_hash
              /\ IF schema[i].type = "TIME" THEN buf[i].op = "setTimeUniform"
                 ELSE buf[i].op \in {"setUniform", "setUniform3"}
        /\ \A j \in 1 .. k :
              /\ buf[n + j].op = "setTexture" /\ buf[n + j].slot = slots[j]
              /\ buf[n + j].s = M.shader /\ buf[n + j].t = M.textures[slots[j]]
        /\ buf[n + k + 1].op = "setUniform4"
        /\ buf[n + k + 1].color = M.color /\ buf[n + k + 1].v = M.shininess
        /\ buf[n + k + 2].op = "end"

C27_BufferLayoutStep ==
    \A m \in MatIds :
        ProducedBuffer(m) =>
            WellFormedBuffer(WorldNext, m, mat'[m].command_buffer,
                             Ascending(BoundSlots(WorldNext, m)))

\* C27: a command buffer produced for a shader holds, in this order, one
\* uniform operation per shader uniform in schema order (setTimeUniform for
\* TIME, setUniform otherwise), one setTexture for each slot below the slot
\* count and texture_count that has a texture bound, in ascending order, one
\* setUniform for color and shininess, and one end marker.
C27_BufferLayout == [][C27_BufferLayoutStep]_vars

\* C29: the command buffer generation has a case for every uniform type a
\* shader can declare (FLOAT, VEC3, COLOR, TIME, INT, MATRIX4): no operation
\* reaches the branch of the switch that fails the assertion.
C29_EveryUniformTypeHandled == ~last.unhandled

----------------------------------------------------------------------------
(* Properties of the command buffer's ownership, under Spec *)

\* C28: a material owns at most one command buffer at any time: the buffer
\* it points to is the only one it has allocated and not freed, it has the
\* size the generator reported, none is freed twice or leaked, and unload
\* leaves the material without a buffer.
C28_OneCommandBuffer ==
    /\ \A m \in MatIds :
          /\ mat[m].buffers = IF mat[m].command_buffer = << >> THEN 0 ELSE 1
          /\ mat[m].buffer_size = getSize(mat[m].command_buffer, 1)
    /\ last.op = "unload" => mat[last.m].command_buffer = << >>

\* setTexture has regenerated the buffer of a READY material
C28_Witness ==
    /\ last.op = "setTexture" /\ last.gi > 0 /\ isReady(World, last.m)
    /\ mat[last.m].buffers = 1
    /\ \E i \in DOMAIN mat[last.m].command_buffer :
          mat[last.m].command_buffer[i].op = "setTexture"

----------------------------------------------------------------------------
(* Properties of the saved texture blocks, under SpecDoc *)

\* blocks has one block per slot of M below texture_count, in slot order,
\* with an empty source exactly for the slots without a texture
OneBlockPerSlot(M, blocks) ==
    /\ Len(blocks) = M.texture_count
    /\ \A j \in 1 .. Len(blocks) :
          /\ HasKey(blocks[j].v, "source")
          /\ (ValueOf(blocks[j].v, "source") = << >>) = (TextureAt(M, j - 1) = NullTex)

\* N binds, slot by slot, the textures M binds
SameSlots(M, N) ==
    /\ N.texture_count = M.texture_count
    /\ \A i \in Slots : i < M.texture_count => N.textures[i] = M.textures[i]

\* what save reports and writes for m agrees with the slots of m
SavedAsBound(m, saved) ==
    IF isReady(World, m)
    THEN saved.ok /\ OneBlockPerSlot(mat[m], TextureBlockSeq(saved.doc))
    ELSE ~saved.ok

\* C30: save returns false for a material that is not READY; for a READY one
\* it writes texture_count texture blocks in slot order, with an empty source
\* for every slot without a texture, and the load of the saved document into
\* a fresh material puts each texture back in the slot it had.
C30_SaveKeepsSlotsStep ==
    /\ \A m \in Editable : SavedAsBound(m, save(World, m))
    /\ last'.op = "reload" => SameSlots(mat[Other(last'.m)], mat'[last'.m])

C30_SaveKeepsSlots == [][C30_SaveKeepsSlotsStep]_vars

\* a material with slot 0 empty and a texture in slot 1 was saved and loaded again
C30_Witness ==
    /\ last.op = "reload" /\ last.ok
    /\ mat[Other(last.m)].texture_count = 2
    /\ mat[Other(last.m)].textures[0] = NullTex /\ mat[Other(last.m)].textures[1] = TexT
    /\ mat[last.m].texture_count = 2
    /\ mat[last.m].textures[0] = NullTex /\ mat[last.m].textures[1] = TexT

----------------------------------------------------------------------------
(* Properties of the state an unload leaves, under Spec *)

\* every material has been unloaded, or was never loaded
AllUnloaded == \A m \in MatIds : mat[m].state = "EMPTY"

\* no manager counts a reference beyond the one the renderer holds on the
\* default shader
NoReferenceHeld ==
    /\ \A t \in TexIds : tex[t].ref = 0
    /\ \A s \in ShaderIds : shd[s].ref = IF s = DefaultShader THEN 1 ELSE 0

\* C31: once unload has run on the edited material and no other material is
\* loaded, every reference the materials acquired from the texture and shader
\* managers has been released exactly once: each count is back at the value
\* it had before the first load.
C31_ReferencesBalanced ==
    (last.op = "unload" /\ last.m \in Editable /\ AllUnloaded) => NoReferenceHeld

\* C32: no texture slot of a material, at any index of the slot array, refers
\* to a texture the material has released: every slot that is not null
\* holds a texture the material is registered on, after unload as well.
C32_NoDanglingSlot ==
    \A m \in MatIds : \A i \in Slots :
        mat[m].textures[i] # NullTex => mat[m].regT[mat[m].textures[i]] > 0

(* The state Material::unload is to leave *)
HoldsNoRegistration(M) ==
    /\ \A t \in TexIds : M.regT[t] = 0
    /\ \A s \in ShaderIds : M.regS[s] = 0

UnloadedFields(M) ==
    /\ M.command_buffer = << >>
    /\ M.uniforms = << >>
    /\ M.texture_count = 0
    /\ M.shader = DefaultShader
    /\ M.shader_instance = getFirstInstance(DefaultShader)

\* C33: when unload returns, the material's command buffer is null, its
\* uniform table is empty, texture_count is 0, its shader is the default
\* shader with the shader's first instance, and the material is registered
\* on no texture and no shader.
C33_UnloadLeavesEmpty ==
    [][ last'.op = "unload" =>
            /\ UnloadedFields(mat'[last'.m])
            /\ HoldsNoRegistration(mat'[last'.m]) ]_vars

(* Idempotence of the readiness reconciliation *)
ReconciledFields(M) ==
    [uniforms |-> M.uniforms, define_mask |-> M.define_mask,
     render_states |-> M.render_states, shader_instance |-> M.shader_instance,
     command_buffer |-> M.command_buffer, buffers |-> M.buffers]

SecondRunChangesNothing(W1, m) ==
    ReconciledFields(onBeforeReady(W1, m).mat[m]) = ReconciledFields(W1.mat[m])

\* C34: running onBeforeReady a second time, with nothing changed in
\* between, leaves the uniform table (length, order, values), the define
\* mask, the render states and the shader instance as the first run left
\* them and produces the same command buffer, still the only one owned.
C34_OnBeforeReadyIdempotent ==
    \A m \in MatIds :
        mat[m].shader # NullShader =>
            SecondRunChangesNothing(onBeforeReady(World, m), m)

\* a shader became ready after the file was parsed: onBeforeReady reordered
\* the parsed uniforms and inserted the missing one
C34_Witness ==
    /\ last.op = "shaderLoaded" /\ isReady(World, "m1")
    /\ Len(shd["s1"].uniforms) = 3
    /\ Len(mat["m1"].uniforms) > 3
    /\ SecondRunChangesNothing(World, "m1")

(***************************************************************************)
(* SpecLua: the calls of the editor and the engine on a script scene that  *)
(* starts empty, and the completions of the script resources               *)
(***************************************************************************)
Called(op, c) ==
    [lua EXCEPT !.steps = @ + 1,
                !.report = [NoReport EXCEPT !.op = op, !.cmp = c,
                                !.obj = IF IsLive(lua, c) THEN lua.scripts[c + 1].obj ELSE 0]]

SceneStep(L) == lua' = L /\ UNCHANGED <<mat, tex, shd, last, ops, eng>>

EditorCall == lua.steps < MaxSteps

CreateComponent(entity) ==
    /\ EditorCall
    /\ lua.entity_script_map[entity] = INVALID_COMPONENT
    /\ lua.next_obj <= MaxCreated
    /\ SceneStep(createComponent(Called("createComponent", INVALID_COMPONENT), entity))

DestroyComponent(c) ==
    /\ EditorCall /\ IsLive(lua, c)
    /\ SceneStep(destroyComponent(Called("destroyComponent", c), c))

AddScript(c) ==
    /\ EditorCall /\ IsLive(lua, c)
    /\ Len(lua.scripts[c + 1].scripts) < MaxScripts
    /\ SceneStep(addScript(Called("addScript", c), c))

SetScriptPath(c, i, path) ==
    /\ EditorCall /\ IsLive(lua, c)
    /\ i < Len(lua.scripts[c + 1].scripts)
    /\ SceneStep(setScriptPath(Called("setScriptPath", c), c, i, path))

RemoveScript(c, i) ==
    /\ EditorCall /\ IsLive(lua, c)
    /\ i < Len(lua.scripts[c + 1].scripts)
    /\ SceneStep(removeScript(Called("removeScript", c), c, i))

StartGame(has_update, g) ==
    /\ EditorCall /\ ~lua.running
    /\ SceneStep(startGame(Called("startGame", INVALID_COMPONENT), has_update, g))

StopGame ==
    /\ EditorCall /\ lua.running
    /\ SceneStep([Called("stopGame", INVALID_COMPONENT) EXCEPT
                     !.updates = << >>, !.running = FALSE])

SceneUpdate(paused) ==
    /\ EditorCall /\ lua.running
    /\ SceneStep(LuaScene_update(Called("update", INVALID_COMPONENT), paused))

\* the script's file has been read: the resource becomes ready
ScriptLoaded(p) ==
    /\ lua.res[p].ref > 0 /\ ~lua.res[p].ready
    /\ SceneStep(invokeCallbacks(
           [lua EXCEPT !.res[p].ready = TRUE,
                       !.report = [NoReport EXCEPT !.op = "scriptLoaded"]], p, 1))

\* the script's file changed on disk: the resource is unloaded to be read again
ScriptReloaded(p) ==
    /\ lua.res[p].ref > 0 /\ lua.res[p].ready
    /\ SceneStep(invokeCallbacks(
           [lua EXCEPT !.res[p].ready = FALSE,
                       !.report = [NoReport EXCEPT !.op = "scriptReloaded"]], p, 1))

NextLua ==
    \/ \E entity \in Entities : CreateComponent(entity)
    \/ \E c \in ComponentIdxs : DestroyComponent(c)
    \/ \E c \in ComponentIdxs : AddScript(c)
    \/ \E c \in ComponentIdxs, i \in 0 .. MaxScripts - 1,
           path \in ScriptPaths \cup {NoScript} : SetScriptPath(c, i, path)
    \/ \E c \in ComponentIdxs, i \in 0 .. MaxScripts - 1 : RemoveScript(c, i)
    \/ \E has_update \in SUBSET ScriptPaths, g \in GarbageCmp : StartGame(has_update, g)
    \/ StopGame
    \/ \E paused \in BOOLEAN : SceneUpdate(paused)
    \/ \E p \in ScriptPaths : ScriptLoaded(p)
    \/ \E p \in ScriptPaths : ScriptReloaded(p)

SpecLua == Init /\ [][NextLua]_vars

(***************************************************************************)
(* SpecScene: a saved scene is loaded, its script resources complete, the  *)
(* scene is saved and loaded again, and a RemoveScriptCommand is executed  *)
(* and undone                                                              *)
(***************************************************************************)
\* the instances of the saved scenes: any script or none, a property only
\* with a.lua
SavedInstances ==
    {x \in [script : ScriptPaths \cup {NoScript}, state : {FALSE},
            properties : PropertyLists] :
        x.properties = << >> \/ x.script = "a.lua"}

SavedScriptLists == UNION {[1 .. n -> SavedInstances] : n \in 0 .. MaxScripts}

SavedComponents(entity) ==
    {NoComponent} \cup
    {[obj |-> entity, entity |-> entity, scripts |-> scrs] : scrs \in SavedScriptLists}

\* the tables of one or two slots, the first slot's entity being e
TablesFrom(e) ==
    {<<a>> : a \in SavedComponents(e)} \cup
    {t \in SavedComponents(e) \X UNION {SavedComponents(x) : x \in Entities \ {e}} :
        Len(t[1].scripts) + Len(t[2].scripts) <= MaxScripts}

SavedTables == UNION {TablesFrom(e) : e \in Entities}

SceneFiles == {serialize([SceneInit EXCEPT !.scripts = t]) : t \in SavedTables}

InitScene ==
    /\ mat = ConstructedWorld.mat /\ tex = ConstructedWorld.tex /\ shd = ConstructedWorld.shd
    /\ ops = 0
    /\ last = [op |-> "init", m |-> "", arg |-> NoArg, ok |-> TRUE, gi |-> 0, warn |-> 0,
               stale |-> FALSE, oob |-> FALSE, early |-> FALSE, unhandled |-> FALSE,
               rep |-> FALSE]
    /\ eng = EngineInit
    /\ \E blob \in SceneFiles : lua = deserialize(SceneInit, blob)

PathsAndProperties(scrs) ==
    [j \in DOMAIN scrs |-> [script |-> scrs[j].script, properties |-> scrs[j].properties]]

RefCounts(L) == [p \in ScriptPaths |-> L.res[p].ref]

\* RemoveScriptCommand::execute
execute(L, c, scr_index) ==
    [removeScript(L, c, scr_index) EXCEPT
        !.cmd = [active |-> TRUE, blob |-> serializeScript(L, c, scr_index),
                 cmp |-> c, scr_index |-> scr_index,
                 before |-> PathsAndProperties(L.scripts[c + 1].scripts),
                 refs |-> RefCounts(L)]]

\* RemoveScriptCommand::undo
undo(L) ==
    [deserializeScript(insertScript(L, L.cmd.cmp, L.cmd.scr_index),
                       L.cmd.cmp, L.cmd.scr_index, L.cmd.blob)
        EXCEPT !.cmd.active = FALSE]

Execute(c, i) ==
    /\ lua.steps < MaxCommands /\ ~lua.cmd.active /\ IsLive(lua, c)
    /\ i < Len(lua.scripts[c + 1].scripts)
    /\ SceneStep(execute(Called("execute", c), c, i))

Undo ==
    /\ lua.cmd.active
    /\ SceneStep(undo(Called("undo", lua.cmd.cmp)))

SaveAndLoad ==
    /\ lua.steps < MaxCommands /\ ~lua.cmd.active
    /\ lua.next_obj + Cardinality(LiveObjects(lua)) <= MaxObjects + 1
    /\ SceneStep(deserialize(Called("deserialize", INVALID_COMPONENT), serialize(lua)))

NextScene ==
    \/ \E c \in ComponentIdxs, i \in 0 .. MaxScripts - 1 : Execute(c, i)
    \/ Undo
    \/ SaveAndLoad
    \/ \E p \in ScriptPaths : ScriptLoaded(p)

SpecScene == InitScene /\ [][NextScene]_vars

(***************************************************************************)
(* SpecEngine: the engine's calls in any order                             *)
(***************************************************************************)
EngineStep(E) == eng' = E /\ UNCHANGED <<mat, tex, shd, last, ops, lua>>

\* EngineImpl::pause
Pause(p) == EngineStep([eng EXCEPT !.paused = p, !.op = "pause"])

\* EngineImpl::nextFrame
NextFrame == EngineStep([eng EXCEPT !.next_frame = TRUE, !.op = "nextFrame"])

\* EngineImpl::setTimeMultiplier
SetTimeMultiplier(k) ==
    EngineStep([eng EXCEPT !.time_multiplier = k, !.op = "setTimeMultiplier"])

Update(tick, fps_due) ==
    /\ fps_due \/ eng.fps_frame < MaxFrames
    /\ EngineStep(Engine_update(eng, tick, fps_due))

NextEngine ==
    \/ \E p \in BOOLEAN : Pause(p)
    \/ NextFrame
    \/ \E k \in Multipliers : SetTimeMultiplier(k)
    \/ \E tick \in Ticks, fps_due \in BOOLEAN : Update(tick, fps_due)

SpecEngine == Init /\ [][NextEngine]_vars

Resumes == eng'.op = "nextFrame" \/ (eng'.op = "pause" /\ ~eng'.paused)

\* C40: an update that runs with the next-frame request set hands
\* paused = false to the scenes and the plugins whatever the pause flag was,
\* and leaves the engine paused with the request cleared; from then on the
\* engine stays paused and every update hands on paused = true, until
\* pause(false) or nextFrame() is called.
C40_SingleStep ==
    [][ /\ (eng'.op = "update" /\ eng.next_frame) =>
               /\ eng'.scenes = [called |-> TRUE, dt |-> StepDelta, paused |-> FALSE]
               /\ eng'.plugins = eng'.scenes
               /\ eng'.paused /\ ~eng'.next_frame
        /\ (eng.paused /\ ~eng.next_frame /\ ~Resumes) =>
               /\ eng'.paused /\ ~eng'.next_frame
               /\ eng'.op = "update" => (eng'.scenes.paused /\ eng'.plugins.paused) ]_vars

\* the update of a single step has just returned
C40_Witness ==
    /\ eng.op = "update" /\ eng.paused /\ ~eng.next_frame
    /\ eng.scenes = [called |-> TRUE, dt |-> StepDelta, paused |-> FALSE]

(* Properties of the script scene, under SpecLua *)
EntriesOfOthers(updates, o) ==
    LET other(e) == e.owner # o IN SelectSeq(updates, other)

\* C35: destroyComponent(c) called while a game is running leaves in the
\* update list exactly the entries of the other components, in their order,
\* its removal loop reads no entry past the end of the list, and no later
\* update calls into the Lua state of a script of a destroyed component.
C35_DestroyedLeavesUpdateList ==
    [][ /\ (lua'.report.op = "destroyComponent" /\ lua.running) =>
               /\ lua'.updates = EntriesOfOthers(lua.updates, lua'.report.obj)
               /\ ~lua'.report.out_of_bounds
        /\ lua'.report.op = "update" => ~lua'.report.dead_update ]_vars

\* the number of instances of the component allocated as o that hold script p
HeldBy(o, p) ==
    SumOver([k \in DOMAIN lua.scripts |->
                IF lua.scripts[k].obj # o THEN 0
                ELSE Cardinality({j \in DOMAIN lua.scripts[k].scripts :
                                     lua.scripts[k].scripts[j].script = p})],
            DOMAIN lua.scripts)

\* C38: a script resource has the onScriptLoaded callback of a component
\* bound once for every reference an instance of that component holds on it
\* and for nothing else, so a component that gave up its reference, or was
\* destroyed, has no callback bound, and no state change of a resource is
\* delivered to a destroyed component.
C38_CallbacksFollowReferences ==
    /\ \A p \in ScriptPaths : \A o \in Objects :
           lua.res[p].cbs[o] = IF o \in LiveObjects(lua) THEN HeldBy(o, p) ELSE 0
    /\ ~lua.report.dead_delivery

StateOnlyIfReady ==
    \A k \in DOMAIN lua.scripts : \A j \in DOMAIN lua.scripts[k].scripts :
        LET inst == lua.scripts[k].scripts[j]
        IN  inst.state => (inst.script # NoScript /\ lua.res[inst.script].ready)

\* C39: startGame looks up `update` and `init` only in instances that have a
\* Lua state, skipping an instance whose script is assigned but not ready or
\* whose state is null, and an instance has a Lua state only if its script
\* resource is ready.
C39_StartGameNeedsState ==
    /\ lua.report.op = "startGame" => ~lua.report.null_state_call
    /\ StateOnlyIfReady

(* Properties of the saved scene and the editor command, under SpecScene *)

\* C36: RemoveScriptCommand::undo after execute leaves the component with
\* the script list execute found, the same script path and property list at
\* every index, whichever index was removed, and every script resource with
\* the reference count it had.
C36_UndoRestoresScripts ==
    [][ lua'.report.op = "undo" =>
            /\ PathsAndProperties(lua'.scripts[lua.cmd.cmp + 1].scripts) = lua.cmd.before
            /\ RefCounts(lua') = lua.cmd.refs ]_vars

SameComponent(a, b) ==
    /\ (a.obj = 0) = (b.obj = 0)
    /\ a.entity = b.entity
    /\ PathsAndProperties(a.scripts) = PathsAndProperties(b.scripts)

MapsLiveComponents(L) ==
    \A e \in Entities :
        LET at == {k \in DOMAIN L.scripts : L.scripts[k].obj # 0 /\ L.scripts[k].entity = e}
        IN  IF at = {} THEN L.entity_script_map[e] = INVALID_COMPONENT
            ELSE L.entity_script_map[e] + 1 \in at

\* C37: deserialize of what serialize wrote gives a component table of the
\* same length with the same empty slots and, for each live component, the
\* same entity, script paths in order and property lists; the entity map
\* then maps the entity of each live component to its slot and no other
\* entity.
C37_SceneRoundTrip ==
    [][ lua'.report.op = "deserialize" =>
            /\ Len(lua'.scripts) = Len(lua.scripts)
            /\ \A k \in DOMAIN lua.scripts : SameComponent(lua'.scripts[k], lua.scripts[k])
            /\ MapsLiveComponents(lua') ]_vars

\* a scene whose first slot is empty and whose second holds a component with
\* a script and a property has been saved and loaded again
C37_Witness ==
    /\ lua.report.op = "deserialize"
    /\ Len(lua.scripts) = 2 /\ lua.scripts[1].obj = 0 /\ lua.scripts[2].obj # 0
    /\ Len(lua.scripts[2].scripts) = 2
    /\ lua.scripts[2].scripts[1].script = "b.lua"
    /\ lua.scripts[2].scripts[2].properties # << >>
    /\ lua.entity_script_map[lua.scripts[2].entity] = 1

====
